---- MODULE Spec2Model ----
(***************************************************************************)
(* compose2hcl: the Compose validator (validateComposeFile), the converter  *)
(* (Compose2HCLConverter) and the library entry points convertCompose /    *)
(* convertComposeSync.                                                      *)
(*                                                                          *)
(* A parsed Compose document is a tree; optional fields are modelled as     *)
(* Absent (<<>>) or Some(v) (<<v>>).  A JavaScript mapping is an ordered    *)
(* sequence of entries (Object.entries order).  A diagnostic string is a    *)
(* record naming the message template and the values interpolated in it.   *)
(* A JavaScript array object is a cell of the heap, so that two references  *)
(* to one array are distinguishable from two equal arrays.                  *)
(***************************************************************************)
EXTENDS Integers, Sequences, FiniteSets, TLC

VARIABLES
  given,         \* the options argument the instance was constructed with
  options,       \* this.options of the converter instance
  this_warnings, \* this.warnings: reference to an array in the heap
  this_errors,   \* this.errors: reference to an array in the heap
  heap,          \* the arrays allocated by the instance
  content,       \* the argument of the last convert() / wrapper call
  result,        \* the ConversionResult the last convert() returned
  validation,    \* the ValidationResult of the last convert(), if it ran
  returned,      \* every ConversionResult this instance has returned so far
  entryInput,    \* the (composeContent, options) a caller passes to the entry points
  syncFrame,     \* the last convertComposeSync call: its local and its return
  asyncPromise,  \* the promise of the last convertCompose call
  microtasks,    \* promise reactions queued and not yet run
  probe,         \* the last direct call of an exported or helper function
  cli,           \* the compose2hcl process: exit code and output written
  http,          \* the response of the last POST /api/convert
  deployment,    \* the last DeploymentService deploy call and the jobs submitted
  wait           \* the waitForJobDeployment call in progress

vars == <<given, options, this_warnings, this_errors, heap, content, result,
          validation, returned, entryInput, syncFrame, asyncPromise, microtasks,
          probe, cli, http, deployment, wait>>

convVars == <<given, options, this_warnings, this_errors, heap, content, result,
              validation, returned>>

entryVars == <<entryInput, syncFrame, asyncPromise, microtasks>>

appVars == <<probe, cli, http, deployment, wait>>

----------------------------------------------------------------------------
(* Bounds *)

MaxServices == 3       \* services per document, one conversion per instance
MaxReuseServices == 1  \* services per document when an instance is reused
MaxCalls == 2          \* convert() calls on one instance

----------------------------------------------------------------------------
(* Optional values and diagnostics *)

Absent == <<>>
Some(v) == <<v>>
Present(f) == f # <<>>
Get(f) == f[1]

Msg(kind, service, detail) ==
  [kind |-> kind, service |-> service, detail |-> detail, joined |-> <<>>]

Count(P(_), s) == Len(SelectSeq(s, P))

----------------------------------------------------------------------------
(* Input universe *)

ServiceNames == <<"web", "api", "db", "cache", "worker">>

Body(shape, image, build, depends_on, ports, expose) ==
  [shape |-> shape, image |-> image, build |-> build,
   depends_on |-> depends_on, ports |-> ports, expose |-> expose,
   labels |-> Absent, deploy |-> Absent, cpus |-> Absent, mem_limit |-> Absent,
   restart |-> Absent, networks |-> Absent, configs |-> Absent, secrets |-> Absent,
   healthcheck |-> Absent, environment |-> Absent, volumes |-> Absent]

\* a short-form port "80:80" is a string, held as its colon-separated segments
ShortPort(parts) ==
  [form |-> "short", parts |-> parts, published |-> Absent, target |-> Absent]

\* a long-form port { target: 443, published: 8443 }
LongPort(published, target) ==
  [form |-> "long", parts |-> <<>>, published |-> published, target |-> target]

Port8080 == ShortPort(<<80, 80>>)
ExposeScalar == [form |-> "scalar", items |-> <<>>]   \* expose: "8080"

ServiceBodies ==
  { Body("object", TRUE,  FALSE, Absent, Absent, Absent),
    Body("object", FALSE, TRUE,  Absent, Absent, Absent),
    Body("object", FALSE, FALSE, Absent, Absent, Absent),
    Body("object", FALSE, FALSE, Absent, Some(<<Port8080>>), Absent),
    Body("object", TRUE,  FALSE, Absent, Some(<<Port8080>>), Absent),
    Body("object", TRUE,  FALSE, Some(<<"web">>), Absent, Absent),
    Body("object", TRUE,  FALSE, Some(<<"ghost">>), Absent, Absent),
    Body("object", TRUE,  FALSE, Some(<<"db", "ghost">>), Absent, Absent),
    Body("object", FALSE, FALSE, Some(<<"ghost">>), Absent, Absent),
    Body("object", TRUE,  FALSE, Absent, Absent, Some(ExposeScalar)),
    Body("object", TRUE,  FALSE, Some(<<"web">>), Absent, Some(ExposeScalar)),
    Body("null",   FALSE, FALSE, Absent, Absent, Absent) }

\* the services mapping: entry i is declared i-th and is named ServiceNames[i]
ServiceMaps(n) ==
  UNION { { [i \in 1..k |-> [name |-> ServiceNames[i], body |-> b[i]]] :
            b \in [1..k -> ServiceBodies] } : k \in 0..n }

\* a version string "3.8" is its dot-separated components
DocHeads ==
  { [name |-> Absent,       version |-> Some(<<3, 8>>)],
    [name |-> Some("shop"), version |-> Some(<<3, 8>>)],
    [name |-> Absent,       version |-> Some(<<2, 1>>)] }

Doc(head, services) ==
  [name |-> head.name, version |-> head.version, services |-> services,
   networks |-> Absent, configs |-> Absent, secrets |-> Absent, volumes |-> Absent]

EmptyDoc == Doc([name |-> Absent, version |-> Absent], Absent)

Documents(n) ==
  { Doc(h, Some(s)) : h \in DocHeads, s \in ServiceMaps(n) } \cup
  { Doc(h, Absent) : h \in DocHeads }

\* the text handed to convert(): not YAML, YAML of a scalar, YAML of a mapping
Contents(n) ==
  { [kind |-> "unparseable", tree |-> EmptyDoc],
    [kind |-> "scalar", tree |-> EmptyDoc] } \cup
  { [kind |-> "mapping", tree |-> d] : d \in Documents(n) }

OptionInputs ==
  [jobName : {Absent, Some("my-app")}, skipValidation : BOOLEAN,
   preserveLabels : {Absent}, resourceDefaults : {Absent}]

----------------------------------------------------------------------------
(* Input universe: one service in detail *)

MaxPorts == 2          \* entries of a ports list and of an expose list

\* the sequences over S of length at most n
SeqsUpTo(S, n) == UNION { [1..k -> S] : k \in 0..n }

PortForms ==
  { ShortPort(<<80, 80>>),              \* "80:80"
    ShortPort(<<8080>>),                \* "8080"
    ShortPort(<<127, 80, 80>>),         \* "127.0.0.1:80:80"
    LongPort(Some(8443), Some(443)),    \* { target: 443, published: 8443 }
    LongPort(Absent, Some(9000)) }      \* { target: 9000 }

\* expose: ["3000", "9229"]
ExposeList(items) == [form |-> "list", items |-> items]

ExposePorts == {3000, 9229}

\* a label string "tier=web" is its '='-separated segments; a label value
\* "a=b" is its segments too
LabelsArray(list) == [form |-> "array", list |-> list, map |-> <<>>]
LabelsMapping(map) == [form |-> "mapping", list |-> <<>>, map |-> map]
Label(key, value) == [key |-> key, value |-> value]

LabelSets ==
  { LabelsArray(<<>>),
    LabelsArray(<< <<"tier", "web">> >>),
    LabelsArray(<< <<"tier", "web">>, <<"debug">> >>),
    LabelsArray(<< <<"tier", "web">>, <<"tier", "db">>, <<"", "x">> >>),
    LabelsArray(<< <<"rule", "a", "b">> >>),
    LabelsMapping(<<Label("tier", <<"web">>)>>),
    LabelsMapping(<<Label("rule", <<"a", "b">>), Label("tier", <<"web">>)>>) }

\* a cpus value: the number num/den, written as a string or as a number
Cpus(form, num, den) == [form |-> form, num |-> num, den |-> den]

\* a memory value.  A number mant * 1024^exp is a byte count; a string is
\* digits (mant * 1024^exp / den, den = 10 for one decimal), optional
\* blanks, a unit letter, an optional "b", in lower or upper case.
MemNumber(mant, exp) ==
  [form |-> "number", mant |-> mant, exp |-> exp, den |-> 1,
   blank |-> FALSE, unit |-> "", b |-> FALSE, upper |-> FALSE]

MemString(mant, exp, den, blank, unit, b, upper) ==
  [form |-> "string", mant |-> mant, exp |-> exp, den |-> den,
   blank |-> blank, unit |-> unit, b |-> b, upper |-> upper]

Mem512M == MemString(512, 0, 1, FALSE, "m", FALSE, TRUE)     \* "512M"
Mem256M == MemString(256, 0, 1, FALSE, "m", FALSE, TRUE)     \* "256M"
Mem1G == MemString(1, 0, 1, FALSE, "g", FALSE, TRUE)         \* "1G"
Mem1p5G == MemString(15, 0, 10, FALSE, "g", FALSE, TRUE)     \* "1.5G"
Mem64m == MemString(64, 0, 1, FALSE, "m", FALSE, FALSE)      \* "64m"
Mem256MiBytes == MemNumber(256, 2)                           \* 268435456

Limits(cpus, memory) == [cpus |-> cpus, memory |-> memory]

LimitSets ==
  {Absent} \cup
  { Some(Limits(c, m)) :
      c \in {Absent, Some(Cpus("string", 5, 10)), Some(Cpus("number", 25, 100))},
      m \in {Absent, Some(Mem512M), Some(Mem256MiBytes), Some(Mem1p5G)} }

ReservationSets ==
  {Absent} \cup
  { Some(Limits(c, m)) :
      c \in {Absent, Some(Cpus("string", 25, 100)), Some(Cpus("number", 3, 4))},
      m \in {Absent, Some(Mem256M), Some(Mem1G)} }

Deploy(resources, restart_policy) ==
  [resources |-> resources, restart_policy |-> restart_policy]

RestartPolicy(condition, max_attempts, delay, window) ==
  [condition |-> condition, max_attempts |-> max_attempts,
   delay |-> delay, window |-> window]

RestartPolicies ==
  { Absent,
    Some(RestartPolicy(Some("none"), Absent, Absent, Absent)),
    Some(RestartPolicy(Some("none"), Some(5), Absent, Absent)),
    Some(RestartPolicy(Some("on-failure"), Some(5), Some("5s"), Some("2m"))),
    Some(RestartPolicy(Some("any"), Absent, Some("5s"), Absent)) }

RestartValues == {"always", "on-failure", "no", "unless-stopped"}

PlainService == Body("object", TRUE, FALSE, Absent, Absent, Absent)

NetworkBodies ==
  { [PlainService EXCEPT !.ports = p, !.expose = e] :
      p \in {Absent} \cup { Some(l) : l \in SeqsUpTo(PortForms, MaxPorts) },
      e \in {Absent, Some(ExposeScalar)} \cup
             { Some(ExposeList(l)) : l \in SeqsUpTo(ExposePorts, MaxPorts) } }

ResourceBodies ==
  { [PlainService EXCEPT !.deploy = d, !.cpus = c, !.mem_limit = m] :
      d \in {Absent, Some(Deploy(Absent, Absent))} \cup
             { Some(Deploy(Some([limits |-> l, reservations |-> r]), Absent)) :
                 l \in LimitSets, r \in ReservationSets },
      c \in {Absent, Some(Cpus("string", 15, 10))},
      m \in {Absent, Some(Mem64m)} }

RestartBodies ==
  { [PlainService EXCEPT !.restart = r, !.deploy = d] :
      r \in {Absent} \cup { Some(v) : v \in RestartValues },
      d \in {Absent} \cup { Some(Deploy(Absent, p)) : p \in RestartPolicies } }

LabelBodies ==
  { [PlainService EXCEPT !.labels = Some(l), !.image = i] :
      l \in LabelSets, i \in BOOLEAN }

\* a service's networks: a list of names, or a mapping keyed by the names
NamesArray(names) == [form |-> "array", names |-> names]
NamesMapping(names) == [form |-> "mapping", names |-> names]

\* a configs / secrets item: "app", or { source: app, target: ... }
RefString(name) == [form |-> "string", source |-> name, target |-> Absent]
RefObject(source, target) == [form |-> "object", source |-> source, target |-> target]

ReferenceBodies ==
  { [PlainService EXCEPT !.depends_on = Some(d)] :
      d \in {<<"api">>, <<"ghost">>, <<"api", "ghost">>} } \cup
  { [PlainService EXCEPT !.networks = Some(n)] :
      n \in {NamesArray(<<"backend">>), NamesArray(<<"default", "ghost">>),
             NamesMapping(<<"backend">>), NamesMapping(<<"ghost">>)} } \cup
  { [PlainService EXCEPT !.configs = Some(c)] :
      c \in {<<RefString("app")>>, <<RefObject("app", Some("/etc/app"))>>,
             <<RefString("ghost")>>, <<RefObject("ghost", Absent), RefString("app")>>} } \cup
  { [PlainService EXCEPT !.secrets = Some(x)] :
      x \in {<<RefString("token")>>, <<RefObject("token", Absent)>>,
             <<RefString("ghost")>>, <<RefObject("ghost", Absent), RefString("token")>>} } \cup
  { [PlainService EXCEPT !.depends_on = Some(<<"ghost">>),
                         !.networks = Some(NamesArray(<<"backend", "ghost">>)),
                         !.configs = Some(<<RefString("app"), RefString("ghost")>>),
                         !.secrets = Some(<<RefString("ghost")>>)] }

\* a top-level networks entry: "backend:" with nothing under it is null
TopNetwork(shape, driver, external) ==
  [shape |-> shape, driver |-> driver, external |-> external]

TopNetworkMaps ==
  { Absent,
    Some(<<[name |-> "backend", body |-> TopNetwork("null", Absent, FALSE)]>>),
    Some(<<[name |-> "backend", body |-> TopNetwork("object", Absent, FALSE)]>>),
    Some(<<[name |-> "backend", body |-> TopNetwork("object", Some("weave"), TRUE)]>>) }

\* a top-level configs / secrets entry
TopItem(file, inline, external) ==
  [file |-> file, content |-> inline, external |-> external]

TopConfigMaps ==
  { Absent,
    Some(<<[name |-> "app", body |-> TopItem(TRUE, FALSE, FALSE)]>>),
    Some(<<[name |-> "app", body |-> TopItem(FALSE, FALSE, FALSE)]>>) }

TopSecretMaps ==
  { Absent,
    Some(<<[name |-> "token", body |-> TopItem(FALSE, FALSE, TRUE)]>>) }

\* documents with references: web, optionally followed by api
ReferenceDocuments ==
  { [Doc([name |-> Absent, version |-> Some(<<3, 8>>)], Some(s))
       EXCEPT !.networks = n, !.configs = c, !.secrets = x] :
      s \in { <<[name |-> "web", body |-> w]>> \o rest :
                w \in ReferenceBodies,
                rest \in { <<>>, <<[name |-> "api", body |-> PlainService]>>,
                           <<[name |-> "api",
                              body |-> Body("null", FALSE, FALSE, Absent, Absent, Absent)]>> } },
      n \in TopNetworkMaps, c \in TopConfigMaps, x \in TopSecretMaps }

\* healthcheck: { test, interval, timeout, disable }
Healthcheck(disable, test, interval, timeout) ==
  [disable |-> disable, test |-> test, interval |-> interval, timeout |-> timeout]

\* test: "curl -f http://localhost" or test: ["CMD", "curl", "-f"]
TestString(text) == [form |-> "string", items |-> <<text>>]
TestArray(items) == [form |-> "array", items |-> items]

Healthchecks ==
  { Healthcheck(d, t, i, Absent) :
      d \in BOOLEAN,
      t \in { Absent, Some(TestString("curl -f http://localhost")),
              Some(TestArray(<<"CMD", "curl", "-f">>)),
              Some(TestArray(<<"CMD-SHELL", "curl -f http://localhost">>)),
              Some(TestArray(<<"NONE">>)) },
      i \in { Absent, Some("10s") } }

HealthBodies ==
  { [PlainService EXCEPT !.healthcheck = Some(h), !.ports = p, !.expose = e] :
      h \in Healthchecks,
      p \in { Absent, Some(<<ShortPort(<<80, 80>>), LongPort(Absent, Some(9000))>>) },
      e \in { Absent, Some(ExposeList(<<3000>>)) } }

\* an environment value: a YAML scalar and the '='-separated segments of its
\* text; an entry "KEY=a=b" of the array form is its segments too
EnvScalar(type, text) == [type |-> type, text |-> text]
EnvArray(list) == [form |-> "array", list |-> list, map |-> <<>>]
EnvMapping(map) == [form |-> "mapping", list |-> <<>>, map |-> map]
EnvEntry(key, value) == [key |-> key, value |-> value]

Environments ==
  { EnvArray(<<>>),
    EnvArray(<< <<"NODE_ENV", "production">>, <<"PORT", "3000">> >>),
    EnvMapping(<<EnvEntry("NODE_ENV", EnvScalar("string", <<"production">>)),
                 EnvEntry("PORT", EnvScalar("number", <<"3000">>))>>),
    EnvArray(<< <<"URL", "postgres://db?sslmode", "disable">>, <<"EMPTY", "">> >>),
    EnvMapping(<<EnvEntry("URL", EnvScalar("string", <<"postgres://db?sslmode", "disable">>)),
                 EnvEntry("EMPTY", EnvScalar("null", <<"null">>))>>),
    EnvArray(<< <<"DEBUG", "true">>, <<"PORT", "3000">>, <<"DEBUG", "false">> >>),
    EnvMapping(<<EnvEntry("DEBUG", EnvScalar("boolean", <<"false">>)),
                 EnvEntry("PORT", EnvScalar("number", <<"3000">>))>>),
    EnvArray(<< <<"HOME">> >>) }

EnvironmentBodies ==
  { [PlainService EXCEPT !.environment = Some(e)] : e \in Environments }

\* a short-form volume "source:target:mode" is its colon-separated segments;
\* absolute tells whether the source starts with '/'
ShortVolume(absolute, source, target, mode) ==
  [form |-> "short", absolute |-> absolute, type |-> Absent,
   source |-> Some(source), target |-> target, mode |-> mode, read_only |-> Absent]

\* a long-form volume { type, source, target, read_only }
LongVolume(type, source, target, read_only) ==
  [form |-> "long", absolute |-> FALSE, type |-> Some(type),
   source |-> source, target |-> Some(target), mode |-> Absent, read_only |-> read_only]

VolumeForms ==
  { ShortVolume(TRUE, "/srv/data", Some("/data"), Absent),       \* "/srv/data:/data"
    ShortVolume(FALSE, "db-data", Some("/var/lib/db"), Some("ro")), \* "db-data:/var/lib/db:ro"
    ShortVolume(TRUE, "/var/cache", Absent, Absent),              \* "/var/cache"
    LongVolume("bind", Some("/srv/conf"), "/etc/conf", Some(TRUE)),
    LongVolume("volume", Some("db-data"), "/var/lib/db", Absent) }

MaxVolumes == 2        \* volumes per service

VolumeBodies ==
  { [PlainService EXCEPT !.volumes = v] :
      v \in {Absent} \cup { Some(l) : l \in SeqsUpTo(VolumeForms, MaxVolumes) } }

\* a top-level volumes entry
TopVolume(shape, driver, external) ==
  [shape |-> shape, driver |-> driver, external |-> external]

TopVolumeMaps ==
  { Absent,
    Some(<<[name |-> "db-data", body |-> TopVolume("null", Absent, FALSE)]>>),
    Some(<<[name |-> "db-data", body |-> TopVolume("object", Some("local"), FALSE)]>>),
    Some(<<[name |-> "db-data", body |-> TopVolume("object", Some("nfs"), TRUE)]>>) }

DetailedBodies ==
  NetworkBodies \cup ResourceBodies \cup RestartBodies \cup LabelBodies \cup
  HealthBodies \cup EnvironmentBodies

\* documents with volumes: one service and the top-level volumes section
VolumeDocuments ==
  { [Doc([name |-> Absent, version |-> Some(<<3, 8>>)],
         Some(<<[name |-> "web", body |-> b]>>)) EXCEPT !.volumes = v] :
      b \in VolumeBodies, v \in TopVolumeMaps }

DetailedDocuments ==
  { Doc([name |-> Absent, version |-> v], Some(<<[name |-> "web", body |-> b]>>)) :
      v \in {Some(<<3, 8>>)}, b \in DetailedBodies } \cup
  ReferenceDocuments \cup VolumeDocuments

DetailedContents == { [kind |-> "mapping", tree |-> d] : d \in DetailedDocuments }

ResourceDefaultInputs ==
  { Absent,
    Some([cpu |-> Some(200), memory |-> Some(1024)]),
    Some([cpu |-> Some(500), memory |-> Absent]) }

DetailedOptionInputs ==
  [jobName : {Absent}, skipValidation : BOOLEAN,
   preserveLabels : {Absent, Some(TRUE), Some(FALSE)},
   resourceDefaults : ResourceDefaultInputs]

----------------------------------------------------------------------------
(* compose-validator.ts *)

ServiceNamed(compose, dep) ==
  { i \in 1..Len(Get(compose.services)) : Get(compose.services)[i].name = dep }

\* compose.services![dep]: the entry exists and is not null
ServiceEntryTruthy(compose, dep) ==
  \E i \in ServiceNamed(compose, dep) : Get(compose.services)[i].body.shape # "null"

\* typeof port === 'string' and /^\d+(?::\d+)?(?:\/(?:tcp|udp))?$/ fails on
\* its segments
PortUnusual(port) == port.form = "short" /\ Len(port.parts) \notin {1, 2}

SeqMap(Op(_), s) == [i \in 1..Len(s) |-> Op(s[i])]

DependsOnErrors(compose, serviceName, service) ==
  IF Present(service.depends_on)
  THEN LET undefinedDep(dep) == ~ServiceEntryTruthy(compose, dep)
           report(dep) == Msg("depends on undefined service", serviceName, dep)
       IN  SeqMap(report, SelectSeq(Get(service.depends_on), undefinedDep))
  ELSE <<>>

PortWarnings(serviceName, service) ==
  IF Present(service.ports)
  THEN LET report(port) == Msg("port has unusual format", serviceName, "")
       IN  SeqMap(report, SelectSeq(Get(service.ports), PortUnusual))
  ELSE <<>>

MissingImageErrors(serviceName, service) ==
  IF ~service.image /\ ~service.build
  THEN <<Msg("must have either image or build", serviceName, "")>>
  ELSE <<>>

\* compose.networks?.[name], compose.configs?.[name], compose.secrets?.[name]:
\* the entry exists and its value is not null
TopEntryTruthy(section, name) ==
  /\ Present(section)
  /\ \E i \in 1..Len(Get(section)) :
        /\ Get(section)[i].name = name
        /\ "shape" \in DOMAIN Get(section)[i].body => Get(section)[i].body.shape # "null"

\* Array.isArray(x) ? x : Object.keys(x)
NamesOf(ref) == ref.names

NetworkWarnings(compose, serviceName, service) ==
  IF Present(service.networks)
  THEN LET undefinedNetwork(network) ==
             network # "default" /\ ~TopEntryTruthy(compose.networks, network)
           report(network) == Msg("references undefined network", serviceName, network)
       IN  SeqMap(report, SelectSeq(NamesOf(Get(service.networks)), undefinedNetwork))
  ELSE <<>>

\* typeof config === 'string' ? config : config.source
RefName(item) == item.source

ConfigErrors(compose, serviceName, service) ==
  IF Present(service.configs)
  THEN LET undefinedConfig(config) == ~TopEntryTruthy(compose.configs, RefName(config))
           report(config) == Msg("references undefined config", serviceName, RefName(config))
       IN  SeqMap(report, SelectSeq(Get(service.configs), undefinedConfig))
  ELSE <<>>

SecretErrors(compose, serviceName, service) ==
  IF Present(service.secrets)
  THEN LET undefinedSecret(secret) == ~TopEntryTruthy(compose.secrets, RefName(secret))
           report(secret) == Msg("references undefined secret", serviceName, RefName(secret))
       IN  SeqMap(report, SelectSeq(Get(service.secrets), undefinedSecret))
  ELSE <<>>

\* /^\d+[bkmg]?$/i.test(memory); a number is tested as its decimal digits
isValidMemorySpec(memory) ==
  \/ memory.form = "number"
  \/ /\ memory.den = 1 /\ ~memory.blank
     /\ \/ memory.unit \in {"k", "m", "g"} /\ ~memory.b
        \/ memory.unit = ""

\* the errors of validateResources(serviceName, service.deploy.resources, ...)
validateResources(serviceName, service) ==
  IF Present(service.deploy) /\ Present(Get(service.deploy).resources)
     /\ Present(Get(Get(service.deploy).resources).limits)
  THEN LET limits == Get(Get(Get(service.deploy).resources).limits) IN
       (IF Present(limits.cpus) /\ Get(limits.cpus).num <= 0
        THEN <<Msg("has invalid CPU limit", serviceName, "")>> ELSE <<>>)
       \o
       (IF Present(limits.memory) /\ ~isValidMemorySpec(Get(limits.memory))
        THEN <<Msg("has invalid memory limit", serviceName, "")>> ELSE <<>>)
  ELSE <<>>

RECURSIVE validateServicesFrom(_, _, _, _)
validateServicesFrom(compose, i, errors, warnings) ==
  LET entries == Get(compose.services) IN
  IF i > Len(entries)
  THEN [errors |-> errors, warnings |-> warnings, threw |-> Absent]
  ELSE LET serviceName == entries[i].name
           service == entries[i].body
       IN  IF service.shape = "null"
           THEN \* service.image on null: TypeError leaves the loop
                [errors |-> errors, warnings |-> warnings,
                 threw |-> Some("Cannot read properties of null")]
           ELSE validateServicesFrom(compose, i + 1,
                  errors \o MissingImageErrors(serviceName, service)
                         \o DependsOnErrors(compose, serviceName, service)
                         \o ConfigErrors(compose, serviceName, service)
                         \o SecretErrors(compose, serviceName, service)
                         \o validateResources(serviceName, service),
                  warnings \o PortWarnings(serviceName, service)
                           \o NetworkWarnings(compose, serviceName, service))

validateServices(compose, errors, warnings) ==
  IF ~Present(compose.services)
  THEN [errors |-> Append(errors, Msg("No services defined", "", "")),
        warnings |-> warnings, threw |-> Absent]
  ELSE validateServicesFrom(compose, 1, errors, warnings)

\* composeSchema.validate(compose, {abortEarly: false}): every entry of
\* services must be an object
SchemaErrors(compose) ==
  IF Present(compose.services)
  THEN LET notObject(e) == e.body.shape = "null"
           report(e) == Msg("must be of type object", e.name, "")
       IN  SeqMap(report, SelectSeq(Get(compose.services), notObject))
  ELSE <<>>

RECURSIVE validateNetworksFrom(_, _, _)
validateNetworksFrom(entries, i, r) ==
  IF i > Len(entries)
  THEN r
  ELSE LET networkName == entries[i].name
           network == entries[i].body
       IN  IF network.shape = "null"
           THEN \* network.driver on null: TypeError leaves the loop
                [r EXCEPT !.threw = Some("Cannot read properties of null")]
           ELSE validateNetworksFrom(entries, i + 1,
                  [r EXCEPT !.warnings =
                     @ \o (IF Present(network.driver)
                              /\ Get(network.driver) \notin {"bridge", "host", "none", "overlay"}
                           THEN <<Msg("uses driver which may not be supported", networkName, "")>>
                           ELSE <<>>)
                       \o (IF network.external
                           THEN <<Msg("Network is external", networkName, "")>>
                           ELSE <<>>)])

\* r is what the earlier passes collected; a pass is not reached after a throw
validateNetworks(compose, r) ==
  IF Present(r.threw) \/ ~Present(compose.networks)
  THEN r
  ELSE validateNetworksFrom(Get(compose.networks), 1, r)

RECURSIVE validateVolumesFrom(_, _, _)
validateVolumesFrom(entries, i, r) ==
  IF i > Len(entries)
  THEN r
  ELSE IF entries[i].body.shape = "null"
       THEN \* volume.driver on null: TypeError leaves the loop
            [r EXCEPT !.threw = Some("Cannot read properties of null")]
       ELSE validateVolumesFrom(entries, i + 1,
              [r EXCEPT !.warnings =
                 @ \o (IF Present(entries[i].body.driver)
                          /\ Get(entries[i].body.driver) # "local"
                       THEN <<Msg("uses driver - may need CSI plugin", entries[i].name, "")>>
                       ELSE <<>>)
                   \o (IF entries[i].body.external
                       THEN <<Msg("Volume is external", entries[i].name, "")>>
                       ELSE <<>>)])

validateVolumes(compose, r) ==
  IF Present(r.threw) \/ ~Present(compose.volumes)
  THEN r
  ELSE validateVolumesFrom(Get(compose.volumes), 1, r)

validateConfigs(compose, r) ==
  IF Present(r.threw) \/ ~Present(compose.configs)
  THEN r
  ELSE LET incomplete(e) == ~e.body.file /\ ~e.body.content /\ ~e.body.external
           external(e) == e.body.external
           reportIncomplete(e) == Msg("Config must specify file, content or external", e.name, "")
           reportExternal(e) == Msg("Config is external", e.name, "")
       IN  [r EXCEPT
              !.errors = @ \o SeqMap(reportIncomplete, SelectSeq(Get(compose.configs), incomplete)),
              !.warnings = @ \o SeqMap(reportExternal, SelectSeq(Get(compose.configs), external))]

validateSecrets(compose, r) ==
  IF Present(r.threw) \/ ~Present(compose.secrets)
  THEN r
  ELSE LET incomplete(e) == ~e.body.file /\ ~e.body.external
           external(e) == e.body.external
           reportIncomplete(e) == Msg("Secret must specify file or external", e.name, "")
           reportExternal(e) == Msg("Secret is external", e.name, "")
       IN  [r EXCEPT
              !.errors = @ \o SeqMap(reportIncomplete, SelectSeq(Get(compose.secrets), incomplete)),
              !.warnings = @ \o SeqMap(reportExternal, SelectSeq(Get(compose.secrets), external))]

\* the catch block and the return of validateComposeFile
ValidationResultOf(checked) ==
  LET errors == IF Present(checked.threw)
                THEN Append(checked.errors, Msg("Validation error", "", Get(checked.threw)))
                ELSE checked.errors
  IN  [isValid |-> errors = <<>>, errors |-> errors, warnings |-> checked.warnings]

validateComposeFile(compose) ==
  ValidationResultOf(
    validateSecrets(compose,
      validateConfigs(compose,
        validateVolumes(compose,
          validateNetworks(compose,
            validateServices(compose, SchemaErrors(compose), <<>>))))))

----------------------------------------------------------------------------
(* converter.ts *)

\* a || d for an optional boolean and for an optional number
OrBool(a, d) == IF Present(a) /\ Get(a) THEN Get(a) ELSE d
OrNumber(a, d) == IF Present(a) /\ Get(a) # 0 THEN Get(a) ELSE d

\* options.resourceDefaults?.cpu, options.resourceDefaults?.memory
DefaultsField(o, field) ==
  IF Present(o.resourceDefaults) THEN Get(o.resourceDefaults)[field] ELSE Absent

NewOptions(o) ==
  [jobName |-> IF Present(o.jobName) THEN Get(o.jobName) ELSE "docker-compose",
   skipValidation |-> o.skipValidation,
   preserveLabels |-> OrBool(o.preserveLabels, TRUE),
   resourceDefaults |-> [cpu |-> OrNumber(DefaultsField(o, "cpu"), 100),
                         memory |-> OrNumber(DefaultsField(o, "memory"), 128)],
   namespace |-> "default",
   datacenters |-> <<"dc1">>,
   region |-> "global",
   priority |-> 50,
   includeComments |-> TRUE,
   networkMode |-> "bridge"]

\* supportedVersions.includes(version) || version.startsWith('3.')
isSupportedVersion(version) ==
  \/ version \in {<<3>>} \cup { <<3, m>> : m \in 0..9 }
  \/ Len(version) >= 2 /\ version[1] = 3

parseCompose(c, warnings) ==
  CASE c.kind = "unparseable" ->
         [threw |-> Some(Msg("Failed to parse YAML", "", "YAMLException")),
          parsed |-> c.tree, warnings |-> warnings]
    [] c.kind = "scalar" ->
         [threw |-> Some(Msg("Failed to parse YAML", "", "Invalid YAML structure")),
          parsed |-> c.tree, warnings |-> warnings]
    [] OTHER ->
         [threw |-> Absent, parsed |-> c.tree,
          warnings |->
            IF Present(c.tree.version) /\ ~isSupportedVersion(Get(c.tree.version))
            THEN Append(warnings, Msg("version may not be fully supported", "", ""))
            ELSE warnings]

\* labels[key] = value on a mapping held in insertion order
AssignKey(map, key, value) ==
  IF \E i \in 1..Len(map) : map[i].key = key
  THEN [i \in 1..Len(map) |-> IF map[i].key = key THEN Label(key, value) ELSE map[i]]
  ELSE Append(map, Label(key, value))

\* const [key, value] = label.split('=', 2): at most two segments are kept
RECURSIVE LabelsFromArray(_, _, _)
LabelsFromArray(list, i, labels) ==
  IF i > Len(list)
  THEN labels
  ELSE LabelsFromArray(list, i + 1,
         IF list[i][1] # "" /\ Len(list[i]) >= 2
         THEN AssignKey(labels, list[i][1], <<list[i][2]>>)
         ELSE labels)

convertLabels(labels) ==
  IF labels.form = "array"
  THEN LabelsFromArray(labels.list, 1, <<>>)
  ELSE labels.map

\* if (service.labels && this.options.preserveLabels)
LabelsKept(self, service) ==
  Present(service.labels) /\ self.options.preserveLabels

convertDockerConfig(self, service) ==
  [image |-> IF service.image THEN Some("image") ELSE Absent,
   labels |-> IF LabelsKept(self, service)
              THEN Some(convertLabels(Get(service.labels)))
              ELSE Absent,
   network_mode |-> self.options.networkMode]

\* Math.round(n / d) for n >= 0, d > 0
RoundHalfUp(n, d) == (2 * n + d) \div (2 * d)

\* Math.round(cpu * 1000), Math.round(parseFloat(cpu) * 1000)
parseCpuValue(cpu) == RoundHalfUp(cpu.num * 1000, cpu.den)

Pow1024(n) == 1024 ^ n

\* units: b: 1, k: 1024, m: 1024 * 1024, g: 1024 * 1024 * 1024, as powers of 1024
units(unit) == IF unit = "k" THEN 1 ELSE IF unit = "m" THEN 2 ELSE IF unit = "g" THEN 3 ELSE 0

\* Math.round(mant * 1024^scale / den)
RoundScaled(mant, den, scale) ==
  IF scale >= 0
  THEN RoundHalfUp(mant * Pow1024(scale), den)
  ELSE RoundHalfUp(mant, den * Pow1024(0 - scale))

MemoryMatch_CaseSensitive(memory) ==
  memory.unit \in {"", "k", "m", "g"} /\ ~memory.upper

\* memory.toLowerCase().match(/^(\d+(?:\.\d+)?)\s*([kmg]?)b?$/)
MemoryMatch(memory) == memory.unit \in {"", "k", "m", "g"}

\* a string that does not match: a warning is pushed and the default returned
MemoryUnparsed(memory) == memory.form = "string" /\ ~MemoryMatch(memory)

\* the value parseMemoryValue returns: bytes / 1024 / 1024, or
\* value * units[unit] / 1024 / 1024, rounded
parseMemoryValue(self, memory) ==
  IF memory.form = "number"
  THEN RoundScaled(memory.mant, 1, memory.exp - 2)
  ELSE IF ~MemoryMatch(memory)
       THEN OrNumber(Some(self.options.resourceDefaults.memory), 128)
       ELSE RoundScaled(memory.mant, memory.den,
                        memory.exp + units(memory.unit) - 2)

Max(a, b) == IF a >= b THEN a ELSE b

\* service.deploy?.resources: the limits and the reservations, if any
ResourcesField(service, field) ==
  IF Present(service.deploy) /\ Present(Get(service.deploy).resources)
     /\ Present(Get(Get(service.deploy).resources)[field])
  THEN Get(Get(Get(service.deploy).resources)[field])
  ELSE Limits(Absent, Absent)

CpuFromDeploy_LimitOnly(self, limits, reservations) ==
  IF Present(limits.cpus)
  THEN parseCpuValue(Get(limits.cpus))
  ELSE self.options.resourceDefaults.cpu

\* limits?.cpus replaces the default, reservations?.cpus raises it
CpuFromDeploy(self, limits, reservations) ==
  LET limited == IF Present(limits.cpus)
                 THEN parseCpuValue(Get(limits.cpus))
                 ELSE self.options.resourceDefaults.cpu
  IN  IF Present(reservations.cpus)
      THEN Max(limited, parseCpuValue(Get(reservations.cpus)))
      ELSE limited

MemoryFromDeploy(self, limits, reservations) ==
  LET limited == IF Present(limits.memory)
                 THEN parseMemoryValue(self, Get(limits.memory))
                 ELSE self.options.resourceDefaults.memory
  IN  IF Present(reservations.memory)
      THEN Max(limited, parseMemoryValue(self, Get(reservations.memory)))
      ELSE limited

\* if (service.mem_limit), if (service.cpus)
LegacyOverrides(service, field) == Present(service[field])

convertResources(self, service) ==
  [cpu |-> IF LegacyOverrides(service, "cpus")
           THEN parseCpuValue(Get(service.cpus))
           ELSE CpuFromDeploy(self, ResourcesField(service, "limits"),
                              ResourcesField(service, "reservations")),
   memory |-> IF LegacyOverrides(service, "mem_limit")
              THEN parseMemoryValue(self, Get(service.mem_limit))
              ELSE MemoryFromDeploy(self, ResourcesField(service, "limits"),
                                    ResourcesField(service, "reservations"))]

\* the warnings the parseMemoryValue calls of convertResources push, in order
ResourceWarnings(service) ==
  LET unparsed(m) == Present(m) /\ MemoryUnparsed(Get(m))
      report(m) == Msg("Unable to parse memory value", "", "")
  IN  SeqMap(report,
        SelectSeq(<<ResourcesField(service, "limits").memory,
                    ResourcesField(service, "reservations").memory,
                    service.mem_limit>>, unparsed))

JoinValue_FirstPart(valueParts) ==
  IF valueParts = <<>> THEN <<"">> ELSE <<valueParts[1]>>

\* valueParts.join('=') || '': the text after the first '=', '' when there is none
JoinValue(valueParts) == IF valueParts = <<>> THEN <<"">> ELSE valueParts

\* String(value ?? '')
StringOfScalar(value) == IF value.type = "null" THEN <<"">> ELSE value.text

\* environment.forEach(envVar => ...): key and value around the first '='
RECURSIVE EnvFromArray(_, _, _)
EnvFromArray(list, i, env) ==
  IF i > Len(list)
  THEN env
  ELSE EnvFromArray(list, i + 1,
         IF list[i][1] # ""
         THEN AssignKey(env, list[i][1], JoinValue(Tail(list[i])))
         ELSE env)

\* Object.entries(environment).forEach(([key, value]) => ...)
RECURSIVE EnvFromMapping(_, _, _)
EnvFromMapping(map, i, env) ==
  IF i > Len(map)
  THEN env
  ELSE EnvFromMapping(map, i + 1, AssignKey(env, map[i].key, StringOfScalar(map[i].value)))

convertEnvironment(environment) ==
  IF environment.form = "array"
  THEN EnvFromArray(environment.list, 1, <<>>)
  ELSE EnvFromMapping(environment.map, 1, <<>>)

VolumeName(prefix, index) == [prefix |-> prefix, index |-> index]

\* volume.split(':'): the number of segments of a short-form volume
VolumeParts(volume) ==
  1 + (IF Present(volume.target) THEN 1 ELSE 0) + (IF Present(volume.mode) THEN 1 ELSE 0)

\* parts[2]?.includes('ro') || false, volume.read_only || false
VolumeReadOnly(volume) ==
  IF volume.form = "short"
  THEN volume.mode = Some("ro")
  ELSE volume.read_only = Some(TRUE)

\* the entry volumes[`volume_${index}`] of one service volume
convertVolume(volume) ==
  IF volume.form = "short"
  THEN [type |-> IF volume.absolute THEN "host" ELSE "csi",
        source |-> volume.source, read_only |-> VolumeReadOnly(volume)]
  ELSE [type |-> IF volume.type = Some("bind") THEN "host" ELSE "csi",
        source |-> volume.source, read_only |-> VolumeReadOnly(volume)]

ServiceVolumes(service) ==
  IF Present(service.volumes) THEN Get(service.volumes) ELSE <<>>

convertVolumes(service) ==
  [i \in 1..Len(ServiceVolumes(service)) |->
     [name |-> VolumeName("volume", i - 1),
      volume |-> convertVolume(ServiceVolumes(service)[i])]]

\* a short-form volume is mounted when it has at least two segments
Mounted(volume) == volume.form = "long" \/ VolumeParts(volume) >= 2

RECURSIVE MountsFrom(_, _, _)
MountsFrom(volumes, i, mounts) ==
  IF i > Len(volumes)
  THEN mounts
  ELSE MountsFrom(volumes, i + 1,
         IF Mounted(volumes[i])
         THEN Append(mounts, [name |-> VolumeName("mount", i - 1),
                              mount |-> [volume |-> VolumeName("volume", i - 1),
                                         destination |-> volumes[i].target,
                                         read_only |-> VolumeReadOnly(volumes[i])]])
         ELSE mounts)

convertVolumeMounts(volumes) == MountsFrom(volumes, 1, <<>>)

\* the args of a check: the words after the prefix, joined by ' ' into one
\* argument or kept apart
CheckArgs(prefix, words, joined) ==
  [prefix |-> prefix, words |-> words, joined |-> joined]

OrString(value, default) == IF Present(value) THEN Get(value) ELSE default

CheckWith(healthcheck, command, args) ==
  [type |-> "script",
   interval |-> OrString(healthcheck.interval, "30s"),
   timeout |-> OrString(healthcheck.timeout, "5s"),
   command |-> command, args |-> args]

\* null for a disabled healthcheck, else the check; command and args only
\* for a string test, a CMD test and a CMD-SHELL test
convertHealthCheck(healthcheck) ==
  IF healthcheck.disable
  THEN Absent
  ELSE IF ~Present(healthcheck.test)
  THEN Some(CheckWith(healthcheck, Absent, Absent))
  ELSE IF Get(healthcheck.test).form = "string"
  THEN Some(CheckWith(healthcheck, Some("/bin/sh"),
                      Some(CheckArgs(<<"-c">>, Get(healthcheck.test).items, TRUE))))
  ELSE IF Get(healthcheck.test).items[1] = "CMD"
  THEN Some(CheckWith(healthcheck,
                      IF Len(Get(healthcheck.test).items) >= 2
                      THEN Some(Get(healthcheck.test).items[2]) ELSE Absent,
                      Some(CheckArgs(<<>>, SubSeq(Get(healthcheck.test).items, 3,
                                                  Len(Get(healthcheck.test).items)), FALSE))))
  ELSE IF Get(healthcheck.test).items[1] = "CMD-SHELL"
  THEN Some(CheckWith(healthcheck, Some("/bin/sh"),
                      Some(CheckArgs(<<"-c">>, Tail(Get(healthcheck.test).items), TRUE))))
  ELSE Some(CheckWith(healthcheck, Absent, Absent))

\* if (service.healthcheck) nomadService.check = [this.convertHealthCheck(...)]
ServiceCheck(service) ==
  IF Present(service.healthcheck)
  THEN Some(<<convertHealthCheck(Get(service.healthcheck))>>)
  ELSE Absent

DependsOnWarning_PerEntry(serviceName, service) ==
  IF Present(service.depends_on)
  THEN [i \in 1..Len(Get(service.depends_on)) |->
          Msg("Service dependencies converted to constraints", serviceName, "")]
  ELSE <<>>

\* if (service.depends_on) this.warnings.push(...): the only effect of depends_on
DependsOnWarning(serviceName, service) ==
  IF Present(service.depends_on)
  THEN <<Msg("Service dependencies converted to constraints", serviceName, "")>>
  ELSE <<>>

convertServiceToTask(self, serviceName, service, warnings) ==
  [task |-> [driver |-> "docker",
             config |-> convertDockerConfig(self, service),
             env |-> IF Present(service.environment)
                     THEN Some(convertEnvironment(Get(service.environment)))
                     ELSE Absent,
             resources |-> convertResources(self, service),
             volume_mount |-> IF Present(service.volumes)
                              THEN Some(convertVolumeMounts(Get(service.volumes)))
                              ELSE Absent],
   warnings |-> warnings \o ResourceWarnings(service)
                         \o DependsOnWarning(serviceName, service)]

PortName(prefix, index) == [prefix |-> prefix, index |-> index]

convertPort_Swapped(port) ==
  IF port.form = "short"
  THEN IF Len(port.parts) = 2
       THEN [static |-> Some(port.parts[2]), to |-> Some(port.parts[1])]
       ELSE [static |-> Absent, to |-> Some(port.parts[1])]
  ELSE [static |-> port.target, to |-> port.published]

\* the body of service.ports.forEach: parts.length === 2 gives static and to,
\* another string gives parseInt of the whole string, which reads its first
\* number; an object gives published and target
convertPort(port) ==
  IF port.form = "short"
  THEN IF Len(port.parts) = 2
       THEN [static |-> Some(port.parts[1]), to |-> Some(port.parts[2])]
       ELSE [static |-> Absent, to |-> Some(port.parts[1])]
  ELSE [static |-> port.published, to |-> port.target]

convertNetworking(self, service) ==
  LET ports == IF Present(service.ports) THEN Get(service.ports) ELSE <<>>
      portEntries == [i \in 1..Len(ports) |->
                        [name |-> PortName("port", i - 1), port |-> convertPort(ports[i])]]
  IN  IF Present(service.expose) /\ Get(service.expose).form = "scalar"
      THEN \* service.expose.forEach is not a function
           [threw |-> Some("service.expose.forEach is not a function"),
            network |-> Absent]
      ELSE LET expose == IF Present(service.expose) THEN Get(service.expose).items ELSE <<>>
               exposeEntries == [j \in 1..Len(expose) |->
                                   [name |-> PortName("expose", j - 1),
                                    port |-> [static |-> Absent, to |-> Some(expose[j])]]]
           IN  [threw |-> Absent,
                network |-> Some([mode |-> self.options.networkMode,
                                  port |-> portEntries \o exposeEntries])]

convertToNomadServices_Single(service, serviceName) ==
  <<[name |-> [base |-> serviceName, index |-> Absent],
     port |-> IF Present(service.ports) \/ Present(service.expose)
              THEN Some(PortName("port", 0)) ELSE Absent,
     tags |-> <<"docker-compose">>,
     check |-> ServiceCheck(service)]>>

\* one entry per element of [...ports, ...expose], or one entry without port
convertToNomadServices(service, serviceName) ==
  IF Present(service.ports) \/ Present(service.expose)
  THEN LET n == (IF Present(service.ports) THEN Len(Get(service.ports)) ELSE 0)
              + (IF Present(service.expose) THEN Len(Get(service.expose).items) ELSE 0)
       IN  [i \in 1..n |-> [name |-> [base |-> serviceName, index |-> Some(i - 1)],
                            port |-> Some(PortName("port", i - 1)),
                            tags |-> <<"docker-compose">>,
                            check |-> ServiceCheck(service)]]
  ELSE <<[name |-> [base |-> serviceName, index |-> Absent],
          port |-> Absent,
          tags |-> <<"docker-compose">>,
          check |-> ServiceCheck(service)]>>

RestartBlock(attempts, delay, interval, mode) ==
  [attempts |-> attempts, delay |-> delay, interval |-> interval, mode |-> mode]

RestartFromField_AlwaysFail(service) ==
  IF ~Present(service.restart)
  THEN RestartBlock(3, "15s", "5m", "delay")
  ELSE IF Get(service.restart) = "on-failure"
       THEN RestartBlock(3, "15s", "5m", "fail")
       ELSE IF Get(service.restart) \in {"always", "no", "unless-stopped"}
            THEN RestartBlock(0, "15s", "5m", "fail")
            ELSE RestartBlock(3, "15s", "5m", "delay")

\* the defaults and switch (service.restart)
RestartFromField(service) ==
  IF ~Present(service.restart)
  THEN RestartBlock(3, "15s", "5m", "delay")
  ELSE IF Get(service.restart) = "always"
       THEN RestartBlock(0, "15s", "5m", "delay")
       ELSE IF Get(service.restart) = "on-failure"
            THEN RestartBlock(3, "15s", "5m", "fail")
            ELSE IF Get(service.restart) \in {"no", "unless-stopped"}
                 THEN RestartBlock(0, "15s", "5m", "fail")
                 ELSE RestartBlock(3, "15s", "5m", "delay")

\* if (service.deploy?.restart_policy): condition, then max_attempts, delay,
\* window
ApplyRestartPolicy(restart, policy) ==
  RestartBlock(
    IF Present(policy.max_attempts) THEN Get(policy.max_attempts)
    ELSE IF policy.condition = Some("none") THEN 0 ELSE restart.attempts,
    IF Present(policy.delay) THEN Get(policy.delay) ELSE restart.delay,
    IF Present(policy.window) THEN Get(policy.window) ELSE restart.interval,
    IF policy.condition \in {Some("none"), Some("on-failure")} THEN "fail" ELSE restart.mode)

\* service.deploy?.restart_policy
RestartPolicyOf(service) ==
  IF Present(service.deploy) THEN Get(service.deploy).restart_policy ELSE Absent

convertRestartPolicy(service) ==
  IF Present(RestartPolicyOf(service))
  THEN ApplyRestartPolicy(RestartFromField(service), Get(RestartPolicyOf(service)))
  ELSE RestartFromField(service)

\* if (service.restart || service.deploy?.restart_policy) taskGroup.restart = ...
GroupRestart(service) ==
  IF Present(service.restart) \/ Present(RestartPolicyOf(service))
  THEN Some(convertRestartPolicy(service))
  ELSE Absent

TaskEntries_FixedKey(serviceName, task) == <<[name |-> "task", task |-> task]>>

\* taskGroup.task![serviceName] = task
TaskEntries(serviceName, task) == <<[name |-> serviceName, task |-> task]>>

ConvertFailed(serviceName, reason) == Msg("Failed to convert service", serviceName, reason)

convertServiceToTaskGroup_Swallow(self, serviceName, service, compose, warnings, errors) ==
  IF service.shape = "null"
  THEN [taskGroup |-> Absent, warnings |-> warnings, errors |-> errors]
  ELSE LET t == convertServiceToTask(self, serviceName, service, warnings)
           needsNetwork == Present(service.ports) \/ Present(service.expose)
           net == convertNetworking(self, service)
       IN  IF needsNetwork /\ Present(net.threw)
           THEN [taskGroup |-> Absent, warnings |-> t.warnings, errors |-> errors]
           ELSE [taskGroup |-> Some([count |-> 1,
                                     task |-> TaskEntries(serviceName, t.task),
                                     network |-> IF needsNetwork THEN net.network ELSE Absent,
                                     volume |-> IF Present(service.volumes) \/ Present(compose.volumes)
                                                THEN Some(convertVolumes(service))
                                                ELSE Absent,
                                     service |-> convertToNomadServices(service, serviceName),
                                     restart |-> GroupRestart(service)]),
                 warnings |-> t.warnings, errors |-> errors]

convertServiceToTaskGroup(self, serviceName, service, compose, warnings, errors) ==
  IF service.shape = "null"
  THEN \* getServiceReplicas reads service.deploy of null
       [taskGroup |-> Absent, warnings |-> warnings,
        errors |-> Append(errors, ConvertFailed(serviceName, "Cannot read properties of null"))]
  ELSE LET t == convertServiceToTask(self, serviceName, service, warnings)
           needsNetwork == Present(service.ports) \/ Present(service.expose)
           net == convertNetworking(self, service)
       IN  IF needsNetwork /\ Present(net.threw)
           THEN [taskGroup |-> Absent, warnings |-> t.warnings,
                 errors |-> Append(errors, ConvertFailed(serviceName, Get(net.threw)))]
           ELSE [taskGroup |-> Some([count |-> 1,
                                     task |-> TaskEntries(serviceName, t.task),
                                     network |-> IF needsNetwork THEN net.network ELSE Absent,
                                     volume |-> IF Present(service.volumes) \/ Present(compose.volumes)
                                                THEN Some(convertVolumes(service))
                                                ELSE Absent,
                                     service |-> convertToNomadServices(service, serviceName),
                                     restart |-> GroupRestart(service)]),
                 warnings |-> t.warnings, errors |-> errors]

RECURSIVE convertServicesFrom(_, _, _, _, _, _, _)
convertServicesFrom(self, compose, entries, i, group, warnings, errors) ==
  IF i > Len(entries)
  THEN [group |-> group, warnings |-> warnings, errors |-> errors]
  ELSE LET r == convertServiceToTaskGroup(self, entries[i].name, entries[i].body, compose,
                                          warnings, errors)
       IN  convertServicesFrom(self, compose, entries, i + 1,
             IF Present(r.taskGroup)
             THEN Append(group, [name |-> entries[i].name, taskGroup |-> Get(r.taskGroup)])
             ELSE group,
             r.warnings, r.errors)

JobNameOf_OptionOnly(self, compose) == self.options.jobName

JobNameOf(self, compose) ==
  IF Present(compose.name) THEN Get(compose.name) ELSE self.options.jobName

convertToNomadJob(self, compose, warnings, errors) ==
  LET jobName == JobNameOf(self, compose)
      entries == IF Present(compose.services) THEN Get(compose.services) ELSE <<>>
      conv == convertServicesFrom(self, compose, entries, 1, <<>>, warnings, errors)
      jobSpec == [id |-> jobName, name |-> jobName, type |-> "service",
                  region |-> self.options.region,
                  namespace |-> self.options.namespace,
                  datacenters |-> self.options.datacenters,
                  priority |-> self.options.priority,
                  group |-> conv.group]
  IN  [nomadJob |-> [job |-> <<[key |-> jobName, spec |-> jobSpec]>>],
       warnings |-> conv.warnings, errors |-> conv.errors]

\* the rendering of the job model: a function of the model and includeComments
generateHCL(nomadJob, includeComments) ==
  [text |-> "job", error |-> Absent, job |-> Some(nomadJob),
   includeComments |-> includeComments]

ErrorHCL(errorMessage) ==
  [text |-> "# ERROR: ", error |-> Some(errorMessage), job |-> Absent,
   includeComments |-> FALSE]

EmptyJob == [job |-> <<>>]

CatchResult_NoReport(errorMessage, warnings, errors) ==
  [hcl |-> ErrorHCL(errorMessage), nomadJob |-> EmptyJob,
   warnings |-> warnings, errors |-> errors]

\* the catch block of convert()
CatchResult(errorMessage, warnings, errors) ==
  [hcl |-> ErrorHCL(errorMessage), nomadJob |-> EmptyJob,
   warnings |-> warnings, errors |-> Append(errors, errorMessage)]

ValidationFailed(errors) ==
  [kind |-> "Validation failed", service |-> "", detail |-> "", joined |-> errors]

ValidationRuns_Always(self) == TRUE

\* if (!this.options.skipValidation)
ValidationRuns(self) == ~self.options.skipValidation

\* if (!skipValidation): the validator's diagnostics are pushed onto
\* this.warnings and this.errors
runValidation(self, parsed, warnings, errors) ==
  LET v == validateComposeFile(parsed) IN
  IF ValidationRuns(self)
  THEN [validation |-> Some(v), warnings |-> warnings \o v.warnings,
        errors |-> errors \o v.errors]
  ELSE [validation |-> Absent, warnings |-> warnings, errors |-> errors]

\* return { hcl, nomadJob, warnings: this.warnings, errors: this.errors }
TranslatedResult(self, j) ==
  [hcl |-> generateHCL(j.nomadJob, self.options.includeComments),
   nomadJob |-> j.nomadJob, warnings |-> j.warnings, errors |-> j.errors]

\* after validation: throw on errors, else translate and render
translateValidated(self, parsed, s) ==
  IF Present(s.validation) /\ Len(s.errors) > 0
  THEN [out |-> CatchResult(ValidationFailed(s.errors), s.warnings, s.errors),
        validation |-> s.validation]
  ELSE [out |-> TranslatedResult(self,
                  convertToNomadJob(self, parsed, s.warnings, s.errors)),
        validation |-> s.validation]

\* after parseCompose: its throw goes to the catch block
translateParsed(self, p, errors) ==
  IF Present(p.threw)
  THEN [out |-> CatchResult(Get(p.threw), p.warnings, errors), validation |-> Absent]
  ELSE translateValidated(self, p.parsed,
                          runValidation(self, p.parsed, p.warnings, errors))

\* the body of convert() after the two diagnostics arrays were reset;
\* warnings and errors are the contents of this.warnings and this.errors
convertBody(self, c, warnings, errors) ==
  translateParsed(self, parseCompose(c, warnings), errors)

ResetDiagnostics_Keep(self, h) == [self |-> self, heap |-> h]

ResetDiagnostics_InPlace(self, h) ==
  [self |-> self,
   heap |-> [h EXCEPT ![self.warnings] = <<>>, ![self.errors] = <<>>]]

\* this.warnings = []; this.errors = [];  two fresh arrays
ResetDiagnostics(self, h) ==
  [self |-> [self EXCEPT !.warnings = Len(h) + 1, !.errors = Len(h) + 2],
   heap |-> h \o << <<>>, <<>> >>]

\* the diagnostics were pushed onto the instance's arrays, and the result
\* holds this.warnings and this.errors themselves
ReturnResult(self, h, b) ==
  [self |-> self,
   heap |-> [h EXCEPT ![self.warnings] = b.out.warnings,
                      ![self.errors] = b.out.errors],
   result |-> [hcl |-> b.out.hcl, nomadJob |-> b.out.nomadJob,
               warnings |-> self.warnings, errors |-> self.errors],
   validation |-> b.validation]

convertAfterReset(r, c) ==
  ReturnResult(r.self, r.heap,
    convertBody(r.self, c, r.heap[r.self.warnings], r.heap[r.self.errors]))

convert(self, h, c) == convertAfterReset(ResetDiagnostics(self, h), c)

\* new Compose2HCLConverter(o): the field initialisers allocate two arrays
NewConverter(o) ==
  [self |-> [options |-> NewOptions(o), warnings |-> 1, errors |-> 2],
   heap |-> << <<>>, <<>> >>]

\* what a caller reads from a result
ResultValue(r, h) ==
  [hcl |-> r.hcl, nomadJob |-> r.nomadJob,
   warnings |-> h[r.warnings], errors |-> h[r.errors]]

----------------------------------------------------------------------------
(* The converter instance *)

Self == [options |-> options, warnings |-> this_warnings, errors |-> this_errors]

DefaultOptionInput ==
  [jobName |-> Absent, skipValidation |-> FALSE,
   preserveLabels |-> Absent, resourceDefaults |-> Absent]

InitConverter ==
  /\ given = DefaultOptionInput
  /\ options = NewConverter(DefaultOptionInput).self.options
  /\ this_warnings = NewConverter(DefaultOptionInput).self.warnings
  /\ this_errors = NewConverter(DefaultOptionInput).self.errors
  /\ heap = NewConverter(DefaultOptionInput).heap
  /\ content = Absent
  /\ result = Absent
  /\ validation = Absent
  /\ returned = <<>>

InitApps ==
  /\ probe = Absent
  /\ cli = Absent
  /\ http = Absent
  /\ deployment = Absent
  /\ wait = Absent

Init ==
  /\ InitConverter
  /\ entryInput = Absent
  /\ syncFrame = Absent
  /\ asyncPromise = Absent
  /\ microtasks = <<>>
  /\ InitApps

Constructed(o, n) ==
  /\ given' = o
  /\ options' = n.self.options
  /\ this_warnings' = n.self.warnings
  /\ this_errors' = n.self.errors
  /\ heap' = n.heap
  /\ content' = Absent
  /\ result' = Absent
  /\ validation' = Absent
  /\ returned' = <<>>
  /\ UNCHANGED <<entryVars, appVars>>

Construct(o) == Constructed(o, NewConverter(o))

\* the instance and its caller after convert() returned r
Returns(c, r) ==
  /\ this_warnings' = r.self.warnings
  /\ this_errors' = r.self.errors
  /\ heap' = r.heap
  /\ content' = Some(c)
  /\ result' = Some(r.result)
  /\ validation' = r.validation
  /\ returned' = Append(returned, [result |-> r.result,
                                   seen |-> ResultValue(r.result, r.heap)])
  /\ UNCHANGED <<given, options, entryVars, appVars>>

Convert(c) == Returns(c, convert(Self, heap, c))

Next ==
  \/ \E o \in OptionInputs : Construct(o)
  \/ Len(returned) < 1 /\ \E c \in Contents(MaxServices) : Convert(c)

Spec == Init /\ [][Next]_vars

NextReuse ==
  \/ \E o \in OptionInputs : Construct(o)
  \/ Len(returned) < MaxCalls /\ \E c \in Contents(MaxReuseServices) : Convert(c)

SpecReuse == Init /\ [][NextReuse]_vars

\* one conversion per instance of a document whose service is given in detail
NextService ==
  \/ \E o \in DetailedOptionInputs : Construct(o)
  \/ Len(returned) < 1 /\ \E c \in DetailedContents : Convert(c)

SpecService == Init /\ [][NextService]_vars

----------------------------------------------------------------------------
(* index.ts: convertCompose and convertComposeSync *)

\* new Compose2HCLConverter(options).convert(composeContent), as its caller
\* reads the result
ReadResult(r) == ResultValue(r.result, r.heap)

ConvertOn(n, c) == convert(n.self, n.heap, c)

FreshConvert(c, o) == ReadResult(ConvertOn(NewConverter(o), c))

\* promise.then(r => result = r): the reaction of a promise is queued as a
\* microtask, also when the promise is already settled; the local is untouched
ThenStore(queue, local, value) ==
  [queue |-> Append(queue, [kind |-> "store", value |-> value]),
   local |-> local]

InitSync ==
  /\ InitConverter
  /\ entryInput \in { Some([content |-> c, options |-> o]) :
                        c \in Contents(MaxReuseServices), o \in OptionInputs }
  /\ syncFrame = Absent
  /\ asyncPromise = Absent
  /\ microtasks = <<>>
  /\ InitApps

Pending(kind) == \E i \in 1..Len(microtasks) : microtasks[i].kind = kind

\* let result; converter.convert(content).then(r => result = r); return result!
SyncReturns(t) ==
  /\ microtasks' = t.queue
  /\ syncFrame' = Some([local |-> t.local, returnValue |-> t.local])
  /\ UNCHANGED <<convVars, entryInput, asyncPromise, appVars>>

ConvertComposeSync ==
  /\ ~Pending("store")
  /\ SyncReturns(ThenStore(microtasks, Absent,
                  FreshConvert(Get(entryInput).content, Get(entryInput).options)))

\* return await converter.convert(content): the promise settles in a later job
ConvertCompose ==
  /\ ~Pending("settle")
  /\ microtasks' = Append(microtasks,
       [kind |-> "settle",
        value |-> FreshConvert(Get(entryInput).content, Get(entryInput).options)])
  /\ asyncPromise' = Some([state |-> "pending", value |-> Absent])
  /\ UNCHANGED <<convVars, entryInput, syncFrame, appVars>>

RunMicrotask ==
  /\ microtasks # <<>>
  /\ microtasks' = Tail(microtasks)
  /\ IF Head(microtasks).kind = "store"
     THEN /\ syncFrame' = Some([Get(syncFrame) EXCEPT !.local = Some(Head(microtasks).value)])
          /\ UNCHANGED asyncPromise
     ELSE /\ asyncPromise' = Some([state |-> "fulfilled",
                                   value |-> Some(Head(microtasks).value)])
          /\ UNCHANGED syncFrame
  /\ UNCHANGED <<convVars, entryInput, appVars>>

NextSync ==
  \/ ConvertComposeSync
  \/ ConvertCompose
  \/ RunMicrotask

SpecSync == InitSync /\ [][NextSync]_vars

----------------------------------------------------------------------------
(* Direct calls of parseMemoryValue and validateComposeVersion *)

MemoryMantissas == {1, 2, 512, 1536, 2048}

\* 2147483648 is 2048 * 1024^2
MemoryInputs ==
  { MemString(n, 0, d, blank, u, b, up) :
      n \in MemoryMantissas, d \in {1, 10}, blank \in BOOLEAN,
      u \in {"", "k", "m", "g", "t"}, b \in BOOLEAN, up \in BOOLEAN } \cup
  { MemString(2048, 2, 1, FALSE, "", b, FALSE) : b \in BOOLEAN } \cup
  { MemNumber(n, e) : n \in MemoryMantissas, e \in 0..2 }

HelperOptionInputs ==
  { DefaultOptionInput,
    [DefaultOptionInput EXCEPT
       !.resourceDefaults = Some([cpu |-> Absent, memory |-> Some(1024)])] }

Probed(fn, input, output, warnings) ==
  /\ probe' = Some([fn |-> fn, input |-> input, output |-> output, warnings |-> warnings])
  /\ UNCHANGED <<convVars, entryVars, cli, http, deployment, wait>>

\* converter.parseMemoryValue(memory) on a converter constructed with o
CallParseMemoryValue(o, memory) ==
  Probed("parseMemoryValue", [options |-> o, memory |-> memory],
         parseMemoryValue(NewConverter(o).self, memory),
         IF MemoryUnparsed(memory)
         THEN <<Msg("Unable to parse memory value", "", "")>>
         ELSE <<>>)

\* a version string is its dot-separated components: '3.8' is <<3, 8>>
VersionInputs ==
  { Absent, Some(<<3, 8>>), Some(<<3, 0>>), Some(<<3>>), Some(<<2, 1>>),
    Some(<<2>>), Some(<<1, 0>>), Some(<<4, 0>>) }

\* version.startsWith(major + '.')
StartsWithMajor(version, major) == Len(version) >= 2 /\ version[1] = major

supportedVersions == { <<3, m>> : m \in 0..9 }

NotSupported(version) ==
  IF version \notin supportedVersions /\ ~StartsWithMajor(version, 3)
  THEN <<Msg("is not supported", "", "")>>
  ELSE <<>>

Deprecated(version) ==
  IF StartsWithMajor(version, 2) \/ StartsWithMajor(version, 1)
  THEN <<Msg("is deprecated and not supported", "", "")>>
  ELSE <<>>

validateComposeVersion(version) ==
  IF ~Present(version)
  THEN [isValid |-> TRUE, errors |-> <<>>,
        warnings |-> <<Msg("No version specified - assuming latest", "", "")>>]
  ELSE [isValid |-> NotSupported(Get(version)) \o Deprecated(Get(version)) = <<>>,
        errors |-> NotSupported(Get(version)) \o Deprecated(Get(version)),
        warnings |-> <<>>]

CallValidateComposeVersion(version) ==
  Probed("validateComposeVersion", version,
         validateComposeVersion(version),
         validateComposeVersion(version).warnings)

NextHelpers ==
  \/ \E o \in HelperOptionInputs, m \in MemoryInputs : CallParseMemoryValue(o, m)
  \/ \E version \in VersionInputs : CallValidateComposeVersion(version)

SpecHelpers == Init /\ [][NextHelpers]_vars

----------------------------------------------------------------------------
(* bin/cli.js, server/web-server.js and nomad-compose: the applications.
   A behaviour is a run of one program: the compose2hcl process, the web
   server, or a client of DeploymentService. *)

MaxAppServices == 1    \* services per document handed to an application

AppContents == Contents(MaxAppServices)

CliInputs ==
  [exists : BOOLEAN, jobName : {"docker-compose", "my-app"},
   skipValidation : BOOLEAN, output : BOOLEAN, format : {"hcl", "json"}]

\* conversionOptions of the convert command: commander supplies the defaults
\* of --job-name, --cpu and --memory, and preserveLabels unless
\* --no-preserve-labels is given
conversionOptions(args) ==
  [jobName |-> Some(args.jobName), skipValidation |-> args.skipValidation,
   preserveLabels |-> Some(TRUE),
   resourceDefaults |-> Some([cpu |-> Some(100), memory |-> Some(128)])]

Exited(args, c, conversion, exitCode, output) ==
  [args |-> args, content |-> c, conversion |-> conversion,
   exitCode |-> exitCode, output |-> output]

\* the text written by the convert command
Output(args, r) ==
  [target |-> IF args.output THEN "file" ELSE "stdout",
   hcl |-> IF args.format = "json" THEN Absent ELSE Some(r.hcl),
   nomadJob |-> IF args.format = "json" THEN Some(r.nomadJob) ELSE Absent]

\* after `const result = await convertCompose(composeContent, conversionOptions)`
AfterConvert(args, c, r) ==
  IF Len(r.errors) > 0
  THEN Exited(args, c, Some(r), 1, Absent)
  ELSE Exited(args, c, Some(r), 0, Some(Output(args, r)))

\* compose2hcl convert <input>
convertCommand(args, c) ==
  IF ~args.exists
  THEN Exited(args, c, Absent, 1, Absent)
  ELSE AfterConvert(args, c, FreshConvert(c, conversionOptions(args)))

CliConvert(args, c) ==
  /\ cli' = Some(convertCommand(args, c))
  /\ UNCHANGED <<convVars, entryVars, probe, http, deployment, wait>>

\* the body of a POST /api/convert request
RequestBodies ==
  { [composeContent |-> Absent, options |-> o] : o \in {DefaultOptionInput} } \cup
  { [composeContent |-> Some(c), options |-> o] :
      c \in AppContents, o \in OptionInputs }

Response(body, conversion, status, success, error) ==
  [request |-> body, conversion |-> conversion, status |-> status,
   success |-> success, error |-> error]

\* app.post('/api/convert', ...)
postApiConvert(body) ==
  IF ~Present(body.composeContent)
  THEN Response(body, Absent, 400, Absent,
                Some("No Docker Compose content provided"))
  ELSE Response(body,
                Some(FreshConvert(Get(body.composeContent), body.options)),
                200, Some(TRUE), Absent)

PostApiConvert(body) ==
  /\ http' = Some(postApiConvert(body))
  /\ UNCHANGED <<convVars, entryVars, probe, cli, deployment, wait>>

DeployOptionInputs == [dryRun : BOOLEAN, waitForDeployment : BOOLEAN]

\* what the Nomad client does when it is called
NomadOutcomes ==
  [submitJob : {"resolves", "rejects"},
   waitForJobDeployment : {"running", "failed", "timeout"}]

DeployStart ==
  [success |-> FALSE, message |-> "", warnings |-> <<>>, errors |-> <<>>,
   jobId |-> Absent]

Outcome(r, submitted) == [result |-> r, submitted |-> submitted]

\* the catch block of the deploy methods
Thrown(r, message, submitted) ==
  Outcome([r EXCEPT !.errors = Append(@, Msg(message, "", "")),
                    !.message = "Deployment failed"], submitted)

\* validateComposeFile(composeContent): the argument is the text, a string,
\* where the schema asks for an object and no section can be read
validateComposeFileOfString ==
  ValidationResultOf(
    validateServices(EmptyDoc, <<Msg("must be of type object", "", "")>>, <<>>))

\* convertCompose(composeContent) without await: the value is the promise,
\* which has no success, errors, warnings or hcl
PromiseProperties ==
  [success |-> Absent, errors |-> Absent, warnings |-> Absent, hcl |-> Absent]

SubmitAndWait(r, hcl, opts, nomad) ==
  IF nomad.submitJob = "rejects"
  THEN Thrown(r, "submitJob rejected", <<hcl>>)
  ELSE IF opts.waitForDeployment /\ nomad.waitForJobDeployment = "failed"
  THEN Thrown([r EXCEPT !.jobId = Some("job")],
              "Job deployment failed with status", <<hcl>>)
  ELSE IF opts.waitForDeployment /\ nomad.waitForJobDeployment = "timeout"
  THEN Thrown([r EXCEPT !.jobId = Some("job")], "Deployment timeout", <<hcl>>)
  ELSE Outcome([r EXCEPT !.jobId = Some("job"), !.success = TRUE,
                         !.message = "Job deployed successfully"], <<hcl>>)

AfterConversion(r, conversion, opts, nomad) ==
  IF ~(Present(conversion.success) /\ Get(conversion.success))
  THEN IF Present(conversion.errors)
       THEN Outcome([r EXCEPT !.errors = @ \o Get(conversion.errors),
                              !.message = "Failed to convert Docker Compose to Nomad HCL"],
                    <<>>)
       ELSE Thrown(r, "conversion.errors is not iterable", <<>>)
  ELSE IF ~Present(conversion.warnings)
  THEN Thrown(r, "Cannot read properties of undefined", <<>>)
  ELSE IF opts.dryRun
  THEN Outcome([r EXCEPT !.warnings = @ \o Get(conversion.warnings),
                         !.success = TRUE,
                         !.message = "Dry run completed successfully"], <<>>)
  ELSE SubmitAndWait([r EXCEPT !.warnings = @ \o Get(conversion.warnings)],
                     conversion.hcl, opts, nomad)

AfterValidation(r, v, conversion, opts, nomad, failed) ==
  IF ~v.isValid
  THEN Outcome([r EXCEPT !.errors = @ \o v.errors, !.message = failed], <<>>)
  ELSE AfterConversion([r EXCEPT !.warnings = @ \o v.warnings],
                       conversion, opts, nomad)

deployComposeContent(opts, nomad) ==
  AfterValidation(DeployStart, validateComposeFileOfString, PromiseProperties,
                  opts, nomad, "Docker Compose content validation failed")

deployComposeFile(readable, opts, nomad) ==
  IF ~readable
  THEN Thrown(DeployStart, "ENOENT: no such file or directory", <<>>)
  ELSE AfterValidation(DeployStart, validateComposeFileOfString,
                       PromiseProperties, opts, nomad,
                       "Docker Compose file validation failed")

Deployed(method, readable, c, opts, nomad, out) ==
  /\ deployment' = Some([method |-> method, readable |-> readable,
                         content |-> c, options |-> opts, nomad |-> nomad,
                         result |-> out.result, submitted |-> out.submitted])
  /\ UNCHANGED <<convVars, entryVars, probe, cli, http, wait>>

DeployComposeContent(c, opts, nomad) ==
  Deployed("deployComposeContent", TRUE, c, opts, nomad,
           deployComposeContent(opts, nomad))

DeployComposeFile(readable, c, opts, nomad) ==
  Deployed("deployComposeFile", readable, c, opts, nomad,
           deployComposeFile(readable, opts, nomad))

\* no program has run yet: a behaviour follows one call of one program
Idle == cli = Absent /\ http = Absent /\ deployment = Absent

NextApps ==
  \/ Idle /\ \E args \in CliInputs, c \in AppContents : CliConvert(args, c)
  \/ Idle /\ \E body \in RequestBodies : PostApiConvert(body)
  \/ Idle /\ \E c \in AppContents, opts \in DeployOptionInputs,
                nomad \in NomadOutcomes :
               DeployComposeContent(c, opts, nomad)
  \/ Idle /\ \E readable \in BOOLEAN, c \in AppContents,
                opts \in DeployOptionInputs, nomad \in NomadOutcomes :
               DeployComposeFile(readable, c, opts, nomad)

SpecApps == Init /\ [][NextApps]_vars

----------------------------------------------------------------------------
(* deployment-service.ts: waitForJobDeployment, one step per await.  Time is
   counted in seconds. *)

Pause == 2             \* setTimeout(resolve, 2000)
MaxTimeout == 5        \* the longest timeout handed to the call
MaxPolls == 4          \* getJob calls followed in one wait
MaxLateness == 1       \* how long a getJob call or a late timer takes at most

JobStatuses == {"pending", "running", "dead", "failed"}

\* the call waitForJobDeployment(jobId, timeout) at its entry
WaitEntry(timeout) ==
  [pc |-> "test", timeout |-> timeout, startTime |-> 0, now |-> 0,
   polls |-> 0, calledAt |-> 0, settledAt |-> 0, status |-> Absent,
   outcome |-> Absent]

InitWait ==
  /\ InitConverter
  /\ entryInput = Absent
  /\ syncFrame = Absent
  /\ asyncPromise = Absent
  /\ microtasks = <<>>
  /\ probe = Absent
  /\ cli = Absent
  /\ http = Absent
  /\ deployment = Absent
  /\ wait \in { Some(WaitEntry(timeout)) : timeout \in 1..MaxTimeout }

WaitStep(w) ==
  /\ wait' = Some(w)
  /\ UNCHANGED <<convVars, entryVars, probe, cli, http, deployment>>

\* while (Date.now() - startTime < timeout) { job = await getJob(jobId) ...
\* and, after the loop, throw new Error(`Deployment timeout after ...`)
LoopTest ==
  /\ Get(wait).pc = "test"
  /\ IF Get(wait).now - Get(wait).startTime < Get(wait).timeout
     THEN /\ Get(wait).polls < MaxPolls
          /\ WaitStep([Get(wait) EXCEPT !.pc = "getJob", !.polls = @ + 1,
                                        !.calledAt = Get(wait).now])
     ELSE WaitStep([Get(wait) EXCEPT !.pc = "threw",
                                     !.outcome = Some("Deployment timeout")])

\* getJob resolves with a job: running returns, dead and failed throw the
\* error that the catch block rethrows, another status goes on to the pause
GetJobResolves(status, elapsed) ==
  /\ Get(wait).pc = "getJob"
  /\ WaitStep([Get(wait) EXCEPT
        !.now = @ + elapsed, !.settledAt = Get(wait).now + elapsed,
        !.status = Some(status),
        !.pc = IF status = "running" THEN "returned"
               ELSE IF status \in {"dead", "failed"} THEN "threw" ELSE "pause",
        !.outcome = IF status = "running" THEN Some("running")
                    ELSE IF status \in {"dead", "failed"}
                         THEN Some("Job deployment failed with status")
                         ELSE Absent])

\* getJob rejects: the catch block swallows an error whose message does not
\* contain 'deployment failed', and the loop goes on
GetJobRejects(elapsed) ==
  /\ Get(wait).pc = "getJob"
  /\ WaitStep([Get(wait) EXCEPT
        !.now = @ + elapsed, !.settledAt = Get(wait).now + elapsed,
        !.status = Some("rejected"), !.pc = "test"])

\* await new Promise(resolve => setTimeout(resolve, 2000))
PauseEnds(late) ==
  /\ Get(wait).pc = "pause"
  /\ WaitStep([Get(wait) EXCEPT !.now = @ + Pause + late, !.pc = "test"])

NextWait ==
  \/ LoopTest
  \/ \E status \in JobStatuses, elapsed \in 0..MaxLateness :
       GetJobResolves(status, elapsed)
  \/ \E elapsed \in 0..MaxLateness : GetJobRejects(elapsed)
  \/ \E late \in 0..MaxLateness : PauseEnds(late)

SpecWait == InitWait /\ [][NextWait]_vars

----------------------------------------------------------------------------
(* Properties *)

Tree == Get(content).tree
Entries == IF Present(Tree.services) THEN Get(Tree.services) ELSE <<>>
Last == ResultValue(Get(result), heap)
Aborted(r) == r.nomadJob = EmptyJob
IsMapping == Get(content).kind = "mapping"
Groups == Last.nomadJob.job[1].spec.group

LacksImageAndBuild(body) == body.shape = "object" /\ ~body.image /\ ~body.build
Declared(name) == \E i \in 1..Len(Entries) : Entries[i].name = name

\* translating the service body throws: null, or expose that is not a list
Throws(body) ==
  \/ body.shape = "null"
  \/ Present(body.expose) /\ Get(body.expose).form = "scalar"

ErrorsAbout(errors, kind, service) ==
  LET match(m) == m.kind = kind /\ m.service = service IN Count(match, errors)

ErrorsAboutDep(errors, service, dep) ==
  LET match(m) == m.kind = "depends on undefined service" /\ m.service = service
                  /\ m.detail = dep
  IN  Count(match, errors)

Occurrences(s, x) == LET same(y) == y = x IN Count(same, s)

GroupsNamed(name) == { k \in 1..Len(Groups) : Groups[k].name = name }

\* C1: whenever validateComposeFile ran on a document with a services
\* section, every service without image and build has exactly one
\* "must have image or build" error, and every depends_on entry naming an
\* undeclared service has exactly one "undefined service" error, whatever
\* the services declared before it look like.
C1_ExhaustiveValidation ==
  (Present(validation) /\ Present(Tree.services)) =>
    \A i \in 1..Len(Entries) :
      LET e == Entries[i]
          errors == Get(validation).errors
      IN  /\ LacksImageAndBuild(e.body) =>
               ErrorsAbout(errors, "must have either image or build", e.name) = 1
          /\ (e.body.shape = "object" /\ Present(e.body.depends_on)) =>
               \A k \in 1..Len(Get(e.body.depends_on)) :
                 LET dep == Get(e.body.depends_on)[k] IN
                 ~Declared(dep) =>
                   ErrorsAboutDep(errors, e.name, dep)
                     = Occurrences(Get(e.body.depends_on), dep)

\* C2: when validation is not skipped and the validator reports an error,
\* convert() returns the empty job and exactly the validator's errors.
C2_SameErrorsAsValidator ==
  (Present(result) /\ Present(validation) /\ ~Get(validation).isValid) =>
    /\ Aborted(Last)
    /\ Last.errors = Get(validation).errors

TranslationReached ==
  /\ Present(result) /\ IsMapping
  /\ given.skipValidation \/ (Present(validation) /\ Get(validation).isValid)

ThrowingServices == { i \in 1..Len(Entries) : Throws(Entries[i].body) }

\* C4: when translation is reached, the job is not emptied; a service whose
\* translation throws has no task group and exactly one error entry naming
\* it, every other service has its task group, and there is no other error.
C4_PartialFailureIsolation ==
  TranslationReached =>
    /\ ~Aborted(Last)
    /\ \A i \in 1..Len(Entries) :
         IF Throws(Entries[i].body)
         THEN /\ GroupsNamed(Entries[i].name) = {}
              /\ ErrorsAbout(Last.errors, "Failed to convert service", Entries[i].name) = 1
         ELSE Cardinality(GroupsNamed(Entries[i].name)) = 1
    /\ Len(Last.errors) = Cardinality(ThrowingServices)
    /\ Len(Groups) = Len(Entries) - Cardinality(ThrowingServices)

C4_Witness ==
  /\ TranslationReached
  /\ Len(Entries) = 3
  /\ Cardinality(ThrowingServices) = 1
  /\ Len(Groups) = 2
  /\ Len(Last.errors) = 1

ValidatorKinds ==
  {"must have either image or build", "depends on undefined service",
   "No services defined", "must be of type object", "Validation error",
   "port has unusual format", "Validation failed"}

\* C5: with skipValidation the validator does not run, no diagnostic of the
\* validator is in the result, the conversion is not aborted, every service
\* that translates without throwing has its task group whether or not it has
\* image or build, and errors is empty unless a service throws.
C5_SkipValidationBypasses ==
  (Present(result) /\ IsMapping /\ given.skipValidation) =>
    /\ validation = Absent
    /\ \A k \in 1..Len(Last.errors) : Last.errors[k].kind \notin ValidatorKinds
    /\ \A k \in 1..Len(Last.warnings) : Last.warnings[k].kind \notin ValidatorKinds
    /\ ~Aborted(Last)
    /\ \A i \in 1..Len(Entries) :
         ~Throws(Entries[i].body) => GroupsNamed(Entries[i].name) # {}
    /\ (ThrowingServices = {}) => Last.errors = <<>>

C5_Witness ==
  /\ Present(result) /\ IsMapping /\ given.skipValidation
  /\ \E i \in 1..Len(Entries) :
       /\ LacksImageAndBuild(Entries[i].body)
       /\ Present(Entries[i].body.ports)
       /\ GroupsNamed(Entries[i].name) # {}
  /\ Last.errors = <<>>

\* C6: what convert() returns on a reused instance is what a freshly
\* constructed converter with the same options returns for the same text.
C6_StatelessBetweenCalls ==
  Present(result) => Last = FreshConvert(Get(content), given)

C6_Witness ==
  /\ Len(returned) = 2
  /\ returned[1].seen.errors # <<>>
  /\ returned[1].seen.warnings # <<>>
  /\ Last.errors = <<>>
  /\ Last.warnings = <<>>

\* C7: the errors and warnings of every result the instance has returned
\* still read as they did when that result was returned.
C7_ReturnedDiagnosticsImmutable ==
  \A i \in 1..Len(returned) :
    /\ heap[returned[i].result.errors] = returned[i].seen.errors
    /\ heap[returned[i].result.warnings] = returned[i].seen.warnings

C7_Witness ==
  /\ Len(returned) = 2
  /\ returned[1].seen.errors # <<>>
  /\ returned[2].seen.errors # returned[1].seen.errors
  /\ heap[returned[1].result.errors] = returned[1].seen.errors

\* C8: the value convertComposeSync returns is set and is the result that
\* convertCompose resolves to for the same input.
C8_SyncReturnsResult ==
  Present(syncFrame) =>
    /\ Present(Get(syncFrame).returnValue)
    /\ Get(Get(syncFrame).returnValue)
         = FreshConvert(Get(entryInput).content, Get(entryInput).options)

NotThrowing(e) == ~Throws(e.body)
NameOf(e) == e.name

\* C9: in a job that is not empty, the groups are, in declaration order, the
\* services that translated without throwing; each group has exactly one
\* task, named as the group, with driver "docker"; no group name repeats.
C9_OneGroupOneTaskPerService ==
  (Present(result) /\ ~Aborted(Last)) =>
    /\ SeqMap(NameOf, Groups) = SeqMap(NameOf, SelectSeq(Entries, NotThrowing))
    /\ \A i, j \in 1..Len(Groups) : Groups[i].name = Groups[j].name => i = j
    /\ \A i \in 1..Len(Groups) :
         /\ Len(Groups[i].taskGroup.task) = 1
         /\ Groups[i].taskGroup.task[1].name = Groups[i].name
         /\ Groups[i].taskGroup.task[1].task.driver = "docker"

C9_Witness ==
  /\ Present(result) /\ ~Aborted(Last)
  /\ Len(Entries) = 3
  /\ Cardinality(ThrowingServices) = 1
  /\ Throws(Entries[2].body)
  /\ SeqMap(NameOf, Groups) = <<"web", "db">>

OptionJobName ==
  IF Present(given.jobName) THEN Get(given.jobName) ELSE "docker-compose"

JobIsNamed(name) ==
  /\ Len(Last.nomadJob.job) = 1
  /\ Last.nomadJob.job[1].key = name
  /\ Last.nomadJob.job[1].spec.id = name
  /\ Last.nomadJob.job[1].spec.name = name

\* C10 as claimed: the job's key, id and name are the jobName option, or
\* "docker-compose" without one, whatever else the document declares.
C10_JobNameIsOption ==
  (Present(result) /\ ~Aborted(Last)) => JobIsNamed(OptionJobName)

\* C10: the job's key, id and name are the document's top-level name when it
\* has one, and otherwise the jobName option, or "docker-compose" without one.
C10_JobNameFromDocumentThenOption ==
  (Present(result) /\ ~Aborted(Last)) =>
    JobIsNamed(IF Present(Tree.name) THEN Get(Tree.name) ELSE OptionJobName)

C10_Witness ==
  /\ Present(result) /\ ~Aborted(Last)
  /\ Present(Tree.name) /\ Present(given.jobName)
  /\ JobIsNamed(Get(Tree.name))

\* the body of the service a group was made from, and the group's only task
BodyOf(name) == Entries[CHOOSE i \in 1..Len(Entries) : Entries[i].name = name].body
TaskOf(group) == group.taskGroup.task[1].task

Converted == Present(result) /\ ~Aborted(Last)

\* C11: a task's config has a labels entry exactly when its service declares
\* labels and the converter was not constructed with preserveLabels: false.
C11_LabelsOnlyWhenPreserved ==
  Converted =>
    \A k \in 1..Len(Groups) :
      Present(TaskOf(Groups[k]).config.labels)
        <=> (Present(BodyOf(Groups[k].name).labels) /\ given.preserveLabels # Some(FALSE))

PortsOf(body) == IF Present(body.ports) THEN Get(body.ports) ELSE <<>>
ExposeOf(body) == IF Present(body.expose) THEN Get(body.expose).items ELSE <<>>

\* what the claim says of one ports entry and its port_<i> entry
PortAsClaimed(p, e) ==
  /\ (p.form = "short" /\ Len(p.parts) = 2) =>
        e.static = Some(p.parts[1]) /\ e.to = Some(p.parts[2])
  /\ (p.form = "short" /\ Len(p.parts) = 1) =>
        e.static = Absent /\ e.to = Some(p.parts[1])
  /\ p.form = "long" => e.static = p.published /\ e.to = p.target

NetworkAsClaimed(body, network) ==
  /\ Len(network.port) = Len(PortsOf(body)) + Len(ExposeOf(body))
  /\ \A i \in 1..Len(PortsOf(body)) :
       /\ network.port[i].name = PortName("port", i - 1)
       /\ PortAsClaimed(PortsOf(body)[i], network.port[i].port)
  /\ \A j \in 1..Len(ExposeOf(body)) :
       /\ network.port[Len(PortsOf(body)) + j].name = PortName("expose", j - 1)
       /\ network.port[Len(PortsOf(body)) + j].port
            = [static |-> Absent, to |-> Some(ExposeOf(body)[j])]

\* C12: a group has a network block exactly when its service declares ports
\* or expose; the block holds port_<i> for the i-th ports entry and
\* expose_<j> for the j-th expose entry and nothing else; "H:C" gives
\* static H and to C, a single number gives to only, and a long form gives
\* static = published and to = target.
C12_NetworkBlock ==
  Converted =>
    \A k \in 1..Len(Groups) :
      /\ Present(Groups[k].taskGroup.network)
           <=> (Present(BodyOf(Groups[k].name).ports)
                  \/ Present(BodyOf(Groups[k].name).expose))
      /\ Present(Groups[k].taskGroup.network) =>
           NetworkAsClaimed(BodyOf(Groups[k].name), Get(Groups[k].taskGroup.network))

C12_Witness ==
  /\ Converted /\ Len(Groups) = 1
  /\ PortsOf(BodyOf("web")) = <<ShortPort(<<80, 80>>), ShortPort(<<8080>>)>>
  /\ ExposeOf(BodyOf("web")) = <<3000>>
  /\ Len(Get(Groups[1].taskGroup.network).port) = 3
  /\ Get(Groups[1].taskGroup.network).port[1].port = [static |-> Some(80), to |-> Some(80)]
  /\ Get(Groups[1].taskGroup.network).port[2].port = [static |-> Absent, to |-> Some(8080)]

\* the megahertz and megabytes the spec's examples give for the values in use
ClaimedMHz(cpu) ==
  CASE cpu = Cpus("string", 5, 10) -> 500       \* "0.5"
    [] cpu = Cpus("string", 25, 100) -> 250     \* "0.25"
    [] cpu = Cpus("number", 25, 100) -> 250     \* 0.25
    [] cpu = Cpus("number", 3, 4) -> 750        \* 0.75
    [] cpu = Cpus("string", 15, 10) -> 1500     \* "1.5"

ClaimedMB(memory) ==
  CASE memory = Mem512M -> 512
    [] memory = Mem256M -> 256
    [] memory = Mem1G -> 1024
    [] memory = Mem1p5G -> 1536
    [] memory = Mem64m -> 64
    [] memory = Mem256MiBytes -> 256

\* resourceDefaults as the options argument sets them
GivenDefault(field, d) ==
  IF Present(given.resourceDefaults) /\ Present(Get(given.resourceDefaults)[field])
  THEN Get(Get(given.resourceDefaults)[field])
  ELSE d

\* the defaults, replaced by the limit, then raised to the reservation
ClaimedCpu(body) ==
  LET limit == ResourcesField(body, "limits").cpus
      reservation == ResourcesField(body, "reservations").cpus
      limited == IF Present(limit) THEN ClaimedMHz(Get(limit)) ELSE GivenDefault("cpu", 100)
  IN  IF Present(reservation) THEN Max(limited, ClaimedMHz(Get(reservation))) ELSE limited

ClaimedMemory(body) ==
  LET limit == ResourcesField(body, "limits").memory
      reservation == ResourcesField(body, "reservations").memory
      limited == IF Present(limit) THEN ClaimedMB(Get(limit)) ELSE GivenDefault("memory", 128)
  IN  IF Present(reservation) THEN Max(limited, ClaimedMB(Get(reservation))) ELSE limited

\* C13 as claimed: every task's cpu and memory are the defaults, replaced by
\* the deploy.resources limit and raised to the reservation; so a service
\* without deploy.resources has exactly the defaults.
C13_ResourcesFromDeployOnly ==
  Converted =>
    \A k \in 1..Len(Groups) :
      /\ TaskOf(Groups[k]).resources.cpu = ClaimedCpu(BodyOf(Groups[k].name))
      /\ TaskOf(Groups[k]).resources.memory = ClaimedMemory(BodyOf(Groups[k].name))

\* C13: a task's cpu is the default, replaced by the limit and raised to the
\* reservation, when its service has no legacy cpus field, and its memory
\* likewise when its service has no legacy mem_limit field; so a service
\* without deploy.resources and without legacy fields has exactly the
\* defaults.
C13_ResourcesFromDeploy ==
  Converted =>
    \A k \in 1..Len(Groups) :
      /\ ~Present(BodyOf(Groups[k].name).cpus) =>
           TaskOf(Groups[k]).resources.cpu = ClaimedCpu(BodyOf(Groups[k].name))
      /\ ~Present(BodyOf(Groups[k].name).mem_limit) =>
           TaskOf(Groups[k]).resources.memory = ClaimedMemory(BodyOf(Groups[k].name))

C13_Witness ==
  /\ Converted /\ Len(Groups) = 1
  /\ ResourcesField(BodyOf("web"), "limits")
       = Limits(Some(Cpus("string", 5, 10)), Some(Mem512M))
  /\ ResourcesField(BodyOf("web"), "reservations")
       = Limits(Some(Cpus("string", 25, 100)), Some(Mem256M))
  /\ ~Present(BodyOf("web").cpus) /\ ~Present(BodyOf("web").mem_limit)
  /\ TaskOf(Groups[1]).resources = [cpu |-> 500, memory |-> 512]

\* v is n / d rounded to the nearest whole number, halves up
IsRounded(v, n, d) == 2 * d * v - d <= 2 * n /\ 2 * n < 2 * d * v + d

\* the power of 1024 of each unit letter, as claimed
ClaimedUnitPower(unit) ==
  CASE unit = "k" -> 1 [] unit = "m" -> 2 [] unit = "g" -> 3 [] OTHER -> 0

\* the megabytes of a parseable memory value: its bytes by 1024 * 1024
ClaimedMegabytes(v, m) ==
  LET scale == m.exp + (IF m.form = "string" THEN ClaimedUnitPower(m.unit) ELSE 0) - 2
  IN  IF scale >= 0
      THEN IsRounded(v, m.mant * 1024 ^ scale, m.den)
      ELSE IsRounded(v, m.mant, m.den * 1024 ^ (0 - scale))

ParsedMemory == Present(probe) /\ Get(probe).fn = "parseMemoryValue"

\* C14: parseMemoryValue gives the whole megabytes of a byte count and of
\* digits followed by b, k, m or g in either case, with 1024-based units;
\* "512M" gives 512, "1G" gives 1024, and 2147483648 as a number or as a
\* digit string gives 2048.
C14_MemoryToMegabytes ==
  ParsedMemory =>
    LET m == Get(probe).input.memory
        v == Get(probe).output
    IN  /\ (m.form = "number" \/ m.unit \in {"", "k", "m", "g"}) => ClaimedMegabytes(v, m)
        /\ m = MemString(512, 0, 1, FALSE, "m", FALSE, TRUE) => v = 512
        /\ m = MemString(1, 0, 1, FALSE, "g", FALSE, TRUE) => v = 1024
        /\ m = MemNumber(2048, 2) => v = 2048
        /\ m = MemString(2048, 2, 1, FALSE, "", FALSE, FALSE) => v = 2048

C14_Witness ==
  /\ ParsedMemory
  /\ Get(probe).input.memory = MemString(1536, 0, 10, FALSE, "g", TRUE, TRUE)
  /\ Get(probe).output = 157286

\* the restart block the claim gives for each restart value
ClaimedRestart(value) ==
  CASE value = "always" -> RestartBlock(0, "15s", "5m", "delay")
    [] value = "on-failure" -> RestartBlock(3, "15s", "5m", "fail")
    [] value \in {"no", "unless-stopped"} -> RestartBlock(0, "15s", "5m", "fail")

\* deploy.restart_policy sets this field of the block
PolicySets(body, field) ==
  /\ Present(RestartPolicyOf(body))
  /\ LET policy == Get(RestartPolicyOf(body)) IN
     CASE field = "attempts" -> policy.condition = Some("none") \/ Present(policy.max_attempts)
       [] field = "mode" -> policy.condition \in {Some("none"), Some("on-failure")}
       [] field = "delay" -> Present(policy.delay)
       [] field = "interval" -> Present(policy.window)

\* C15: the group of a service that declares restart carries a restart
\* block; in it, every field that deploy.restart_policy does not set has
\* the value of the mapping: always gives attempts 0 and mode "delay",
\* on-failure gives attempts 3 and mode "fail", no and unless-stopped give
\* attempts 0 and mode "fail", with delay "15s" and interval "5m".
C15_RestartMapping ==
  Converted =>
    \A k \in 1..Len(Groups) :
      Present(BodyOf(Groups[k].name).restart) =>
        /\ Present(Groups[k].taskGroup.restart)
        /\ \A field \in {"attempts", "delay", "interval", "mode"} :
             ~PolicySets(BodyOf(Groups[k].name), field) =>
               Get(Groups[k].taskGroup.restart)[field]
                 = ClaimedRestart(Get(BodyOf(Groups[k].name).restart))[field]

C15_Witness ==
  /\ Converted /\ Len(Groups) = 1
  /\ BodyOf("web").restart = Some("always")
  /\ ~Present(RestartPolicyOf(BodyOf("web")))
  /\ Groups[1].taskGroup.restart = Some(RestartBlock(0, "15s", "5m", "delay"))

\* the library accepts the document: it validates and converts without errors
DocValid(c) ==
  /\ c.kind = "mapping"
  /\ validateComposeFile(c.tree).isValid
  /\ FreshConvert(c, DefaultOptionInput).errors = <<>>

Accepted(d) == d.readable /\ DocValid(d.content)

\* C16: a deploy call submits at most one job, and only for a document that
\* validated and converted, without dryRun; a document that fails validation
\* or conversion is never submitted and gives success=false with errors; a
\* dry run of a document that validates and converts submits nothing and
\* gives success=true
C16_DeployContract ==
  Present(deployment) =>
    LET d == Get(deployment)
    IN  /\ Len(d.submitted) <= 1
        /\ d.submitted # <<>> => Accepted(d) /\ ~d.options.dryRun
        /\ ~Accepted(d) => /\ d.submitted = <<>>
                           /\ ~d.result.success
                           /\ d.result.errors # <<>>
        /\ (d.options.dryRun /\ Accepted(d)) => /\ d.submitted = <<>>
                                                /\ d.result.success

\* the conversion an application ran has errors
Failed(app) ==
  /\ Present(app)
  /\ Present(Get(app).conversion)
  /\ Get(Get(app).conversion).errors # <<>>

CliReportsSuccess == Present(cli) /\ Get(cli).exitCode = 0
HttpReportsSuccess == Present(http) /\ Get(http).success = Some(TRUE)

\* C17: a conversion with errors makes the convert command exit non-zero
\* without output and makes POST /api/convert answer without success: true;
\* success is reported only for a conversion without errors
C17_ErrorsReportedAsFailure ==
  /\ Failed(cli) => Get(cli).exitCode # 0 /\ Get(cli).output = Absent
  /\ CliReportsSuccess => ~Failed(cli) /\ Present(Get(cli).output)
  /\ Failed(http) => ~HttpReportsSuccess

LegacyVersion(compose) ==
  /\ Present(compose.version)
  /\ Len(Get(compose.version)) >= 2
  /\ Get(compose.version)[1] \in {1, 2}

\* the exported version check reports a version starting with '1.' or '2.' as
\* an error and an absent version as a warning
VersionRuleStated ==
  (Present(probe) /\ Get(probe).fn = "validateComposeVersion") =>
    /\ ~Present(Get(probe).input) =>
         Get(probe).output.isValid /\ Get(probe).output.warnings # <<>>
    /\ (Present(Get(probe).input) /\ Get(Get(probe).input)[1] # 3) =>
         ~Get(probe).output.isValid

\* C18: a document whose version starts with '1.' or '2.' fails the validation
\* pass of convert(): validateComposeFile reports isValid=false and the
\* conversion is aborted with errors and the empty job
C18_VersionRuleEnforced ==
  (Present(result) /\ IsMapping /\ LegacyVersion(Get(content).tree)
     /\ Present(validation)) =>
    /\ ~Get(validation).isValid
    /\ Last.errors # <<>>
    /\ Aborted(Last)

\* the section declares an entry of that name, whatever its body
DeclaredIn(section, name) ==
  Present(section) /\ \E i \in 1..Len(Get(section)) : Get(section)[i].name = name

ReferenceNames == {"web", "api", "db", "ghost", "backend", "default", "app", "token"}

DependsOnNames(body) ==
  IF Present(body.depends_on) THEN Get(body.depends_on) ELSE <<>>

NetworkNames(body) ==
  IF Present(body.networks) THEN NamesOf(Get(body.networks)) ELSE <<>>

ConfigNames(body) ==
  IF Present(body.configs) THEN SeqMap(RefName, Get(body.configs)) ELSE <<>>

SecretNames(body) ==
  IF Present(body.secrets) THEN SeqMap(RefName, Get(body.secrets)) ELSE <<>>

Reported(messages, kind, service, detail) ==
  LET match(m) == m.kind = kind /\ m.service = service /\ m.detail = detail
  IN  Count(match, messages)

\* one message per reference to a name that is not declared, none otherwise
OnePerUnresolved(messages, kind, service, names, section, name) ==
  Reported(messages, kind, service, name) =
    IF DeclaredIn(section, name) THEN 0 ELSE Occurrences(names, name)

\* C19: after validation of a document, every service has exactly one error
\* for each depends_on, configs and secrets reference to an undeclared entry,
\* exactly one warning and no error for each networks entry that is neither
\* declared nor 'default', and nothing for a reference that resolves
C19_ReferencesChecked ==
  (Present(validation) /\ IsMapping /\ Present(Get(content).tree.services)) =>
    \A i \in 1..Len(Entries) : \A n \in ReferenceNames :
      Entries[i].body.shape = "object" =>
        /\ OnePerUnresolved(Get(validation).errors, "depends on undefined service",
             Entries[i].name, DependsOnNames(Entries[i].body),
             Get(content).tree.services, n)
        /\ OnePerUnresolved(Get(validation).errors, "references undefined config",
             Entries[i].name, ConfigNames(Entries[i].body),
             Get(content).tree.configs, n)
        /\ OnePerUnresolved(Get(validation).errors, "references undefined secret",
             Entries[i].name, SecretNames(Entries[i].body),
             Get(content).tree.secrets, n)
        /\ Reported(Get(validation).warnings, "references undefined network",
             Entries[i].name, n) =
             IF n = "default" \/ DeclaredIn(Get(content).tree.networks, n)
             THEN 0 ELSE Occurrences(NetworkNames(Entries[i].body), n)
        /\ Reported(Get(validation).errors, "references undefined network",
             Entries[i].name, n) = 0

\* deploy.resources.limits or reservations gives a value for the resource
DeploySets(body, resource) ==
  \/ Present(ResourcesField(body, "limits")[resource])
  \/ Present(ResourcesField(body, "reservations")[resource])

\* C20: the legacy cpus / mem_limit value is the task's cpu / memory when the
\* field is present and deploy.resources gives no value for that resource;
\* when deploy.resources gives a value, the task keeps the value derived from
\* deploy.resources
C20_LegacyOnlyWithoutDeploy ==
  Converted =>
    \A k \in 1..Len(Groups) :
      /\ (Present(BodyOf(Groups[k].name).cpus)
            /\ ~DeploySets(BodyOf(Groups[k].name), "cpus")) =>
           TaskOf(Groups[k]).resources.cpu
             = ClaimedMHz(Get(BodyOf(Groups[k].name).cpus))
      /\ DeploySets(BodyOf(Groups[k].name), "cpus") =>
           TaskOf(Groups[k]).resources.cpu = ClaimedCpu(BodyOf(Groups[k].name))
      /\ (Present(BodyOf(Groups[k].name).mem_limit)
            /\ ~DeploySets(BodyOf(Groups[k].name), "memory")) =>
           TaskOf(Groups[k]).resources.memory
             = ClaimedMB(Get(BodyOf(Groups[k].name).mem_limit))
      /\ DeploySets(BodyOf(Groups[k].name), "memory") =>
           TaskOf(Groups[k]).resources.memory = ClaimedMemory(BodyOf(Groups[k].name))

\* deploy.restart_policy.condition is 'none'
ConditionNone(body) ==
  Present(RestartPolicyOf(body)) /\ Get(RestartPolicyOf(body)).condition = Some("none")

\* C21: the group of a service whose deploy.restart_policy.condition is
\* 'none' has a restart block with attempts 0 and mode "fail", whatever the
\* restart value and the other fields of restart_policy
C21_ConditionNoneForcesFail ==
  Converted =>
    \A k \in 1..Len(Groups) :
      ConditionNone(BodyOf(Groups[k].name)) =>
        /\ Present(Groups[k].taskGroup.restart)
        /\ Get(Groups[k].taskGroup.restart).attempts = 0
        /\ Get(Groups[k].taskGroup.restart).mode = "fail"

\* a mapping held in insertion order, as its set of key and value pairs
LabelPairs(map) == { <<map[i].key, map[i].value>> : i \in 1..Len(map) }

\* entry i of the list is a 'K=V' string with a key
IsKeyValue(list, i) == Len(list[i]) >= 2 /\ list[i][1] # ""

\* the mapping a list of 'K=V' strings stands for: K is the text before the
\* first '=', V all the text after it, and the last entry of a key wins
MappingOfList(list) ==
  { <<list[i][1], Tail(list[i])>> :
      i \in { j \in 1..Len(list) :
                /\ IsKeyValue(list, j)
                /\ \A l \in (j + 1)..Len(list) :
                     IsKeyValue(list, l) => list[l][1] # list[j][1] } }

\* C27: the config.labels of a service is the mapping its labels stand for,
\* in array form as in mapping form, also for values that contain '='
C27_LabelFormsAgree ==
  Converted =>
    \A k \in 1..Len(Groups) :
      (Present(BodyOf(Groups[k].name).labels)
         /\ Present(TaskOf(Groups[k]).config.labels)) =>
        LabelPairs(Get(TaskOf(Groups[k]).config.labels))
          = IF Get(BodyOf(Groups[k].name).labels).form = "array"
            THEN MappingOfList(Get(BodyOf(Groups[k].name).labels).list)
            ELSE LabelPairs(Get(BodyOf(Groups[k].name).labels).map)

ServicesOf(group) == group.taskGroup.service

\* the service declares a healthcheck that is not disabled and has a test
HealthcheckActive(body) ==
  /\ Present(body.healthcheck)
  /\ ~Get(body.healthcheck).disable
  /\ Present(Get(body.healthcheck).test)

\* C22: a Nomad service entry of a service without healthcheck, with a
\* disabled healthcheck or with a healthcheck without test carries no check:
\* neither a check list, nor a null entry, nor a check without command
C22_CheckOnlyWhenActive ==
  Converted =>
    \A k \in 1..Len(Groups) :
      ~HealthcheckActive(BodyOf(Groups[k].name)) =>
        \A j \in 1..Len(ServicesOf(Groups[k])) :
          ServicesOf(Groups[k])[j].check = Absent

DeclaresPorts(body) == Present(body.ports) \/ Present(body.expose)

\* C23: the group of a service that declares ports or expose has one Nomad
\* service per ports and expose entry, the i-th named '<service>-<i>'; the
\* group of any other service has exactly one Nomad service, named after the
\* service and without port; every Nomad service has the tags
\* ['docker-compose']
C23_OneServicePerPort ==
  Converted =>
    \A k \in 1..Len(Groups) :
      /\ DeclaresPorts(BodyOf(Groups[k].name)) =>
           /\ Len(ServicesOf(Groups[k]))
                = Len(PortsOf(BodyOf(Groups[k].name))) + Len(ExposeOf(BodyOf(Groups[k].name)))
           /\ \A j \in 1..Len(ServicesOf(Groups[k])) :
                ServicesOf(Groups[k])[j].name
                  = [base |-> Groups[k].name, index |-> Some(j - 1)]
      /\ ~DeclaresPorts(BodyOf(Groups[k].name)) =>
           /\ Len(ServicesOf(Groups[k])) = 1
           /\ ServicesOf(Groups[k])[1].name = [base |-> Groups[k].name, index |-> Absent]
           /\ ServicesOf(Groups[k])[1].port = Absent
      /\ \A j \in 1..Len(ServicesOf(Groups[k])) :
           ServicesOf(Groups[k])[j].tags = <<"docker-compose">>

C23_Witness ==
  /\ Converted /\ Len(Groups) = 1
  /\ Len(PortsOf(BodyOf("web"))) = 2 /\ Len(ExposeOf(BodyOf("web"))) = 1
  /\ Len(ServicesOf(Groups[1])) = 3
  /\ ServicesOf(Groups[1])[3].name = [base |-> "web", index |-> Some(2)]

\* the keys of network.port of a group
NetworkPortNames(group) ==
  IF Present(group.taskGroup.network)
  THEN { Get(group.taskGroup.network).port[i].name :
           i \in 1..Len(Get(group.taskGroup.network).port) }
  ELSE {}

\* C24: in every task group, the port label of each Nomad service entry is a
\* key of the group's network.port
C24_ServicePortsExist ==
  Converted =>
    \A k \in 1..Len(Groups) :
      \A j \in 1..Len(ServicesOf(Groups[k])) :
        Present(ServicesOf(Groups[k])[j].port) =>
          Get(ServicesOf(Groups[k])[j].port) \in NetworkPortNames(Groups[k])

DeclaredVolumes(body) == IF Present(body.volumes) THEN Get(body.volumes) ELSE <<>>

\* the entries named prefix_<index> of a volume or volume_mount block
EntriesNamed(block, prefix, index) ==
  { i \in 1..Len(block) : block[i].name = VolumeName(prefix, index) }

\* C25: for a service that declares volumes, the group has exactly one
\* volume entry volume_<i> and the task exactly one volume_mount entry
\* mount_<i> for every declared volume i, mount_<i>.volume is volume_<i>,
\* and there are as many mounts as volume entries as declared volumes
C25_VolumesAndMounts ==
  Converted =>
    \A k \in 1..Len(Groups) :
      Present(BodyOf(Groups[k].name).volumes) =>
        /\ Present(Groups[k].taskGroup.volume)
        /\ Present(TaskOf(Groups[k]).volume_mount)
        /\ Len(Get(Groups[k].taskGroup.volume)) = Len(DeclaredVolumes(BodyOf(Groups[k].name)))
        /\ Len(Get(TaskOf(Groups[k]).volume_mount)) = Len(DeclaredVolumes(BodyOf(Groups[k].name)))
        /\ \A i \in 1..Len(DeclaredVolumes(BodyOf(Groups[k].name))) :
             /\ Cardinality(EntriesNamed(Get(Groups[k].taskGroup.volume), "volume", i - 1)) = 1
             /\ Cardinality(EntriesNamed(Get(TaskOf(Groups[k]).volume_mount), "mount", i - 1)) = 1
             /\ \A m \in EntriesNamed(Get(TaskOf(Groups[k]).volume_mount), "mount", i - 1) :
                  Get(TaskOf(Groups[k]).volume_mount)[m].mount.volume = VolumeName("volume", i - 1)

\* the mapping an environment stands for: in array form the key is the text
\* before the first '=' and the value all the text after it, the last entry
\* of a key winning; in mapping form the value is the text of the scalar,
\* empty for null
EnvOfList(list) ==
  { <<list[i][1], IF Len(list[i]) = 1 THEN <<"">> ELSE Tail(list[i])>> :
      i \in { j \in 1..Len(list) :
                /\ list[j][1] # ""
                /\ \A l \in (j + 1)..Len(list) : list[l][1] # list[j][1] } }

EnvOfMapping(map) ==
  { <<map[i].key, IF map[i].value.type = "null" THEN <<"">> ELSE map[i].value.text>> :
      i \in 1..Len(map) }

EnvClaimed(environment) ==
  IF environment.form = "array"
  THEN EnvOfList(environment.list)
  ELSE EnvOfMapping(environment.map)

\* C26: the env of a task is the mapping its service's environment stands
\* for, in array form as in mapping form, with one entry per key
C26_EnvironmentFormsAgree ==
  Converted =>
    \A k \in 1..Len(Groups) :
      Present(BodyOf(Groups[k].name).environment) =>
        /\ Present(TaskOf(Groups[k]).env)
        /\ LabelPairs(Get(TaskOf(Groups[k]).env))
             = EnvClaimed(Get(BodyOf(Groups[k].name).environment))
        /\ \A i, j \in 1..Len(Get(TaskOf(Groups[k]).env)) :
             Get(TaskOf(Groups[k]).env)[i].key = Get(TaskOf(Groups[k]).env)[j].key => i = j

\* the array with a duplicated key and a value containing '=' was converted
C26_Witness ==
  /\ Converted /\ Len(Groups) = 1
  /\ Present(BodyOf("web").environment)
  /\ Get(BodyOf("web").environment).form = "array"
  /\ Len(Get(BodyOf("web").environment).list) = 3
  /\ LabelPairs(Get(TaskOf(Groups[1]).env))
       = { <<"DEBUG", <<"false">> >>, <<"PORT", <<"3000">> >> }

\* the document without the depends_on of any service
WithoutDependsOn(c) ==
  [c EXCEPT !.tree.services =
     IF Present(@)
     THEN Some([i \in 1..Len(Get(@)) |->
                  [Get(@)[i] EXCEPT !.body.depends_on = Absent]])
     ELSE @]

DependencyWarnings(warnings, service) ==
  ErrorsAbout(warnings, "Service dependencies converted to constraints", service)

WaitsForJob(d) ==
  /\ Accepted(d)
  /\ d.options.waitForDeployment /\ ~d.options.dryRun
  /\ d.nomad.submitJob = "resolves"

ErrorNamed(d, message) ==
  \E k \in 1..Len(d.result.errors) : d.result.errors[k].kind = message

\* C29: with waitForDeployment set the job is submitted once and then polled:
\* a poll reporting 'running' gives success=true, one reporting 'dead' or
\* 'failed' gives success=false with an error naming the status, and a wait
\* that outlasts the timeout gives success=false with 'Deployment timeout'
C29_WaitDecidesResult ==
  (Present(deployment) /\ WaitsForJob(Get(deployment))) =>
    LET d == Get(deployment)
    IN  /\ Len(d.submitted) = 1
        /\ d.nomad.waitForJobDeployment = "running" => d.result.success
        /\ d.nomad.waitForJobDeployment = "failed" =>
             /\ ~d.result.success
             /\ ErrorNamed(d, "Job deployment failed with status")
        /\ d.nomad.waitForJobDeployment = "timeout" =>
             /\ ~d.result.success
             /\ ErrorNamed(d, "Deployment timeout")

\* C30: a getJob poll that follows another one starts at least the 2-second
\* pause after the earlier poll settled, also when the earlier poll threw
C30_PollsSeparatedByPause ==
  (Present(wait) /\ Get(wait).pc = "getJob" /\ Get(wait).polls >= 2) =>
    Get(wait).calledAt - Get(wait).settledAt >= Pause

====
